---- MODULE Spec2Model ----
(***************************************************************************)
(* A model of the DMD import/export add-on (src/dmdaddon.py): the text     *)
(* scanner (the two regular expressions), the section state machine of     *)
(* DMDParser._parse_content, the encoder DMDParser.write_file, the         *)
(* encoding fallback of DMDParser.parse_file, the UV deduplication of      *)
(* ExportDMD.object_to_dmd_mesh and the two batch exports.                 *)
(*                                                                         *)
(* Text is a sequence of characters: a printable ASCII character, the tab  *)
(* and the two line ends are one-character strings, any other character is *)
(* named by its code point ("U+000C", "U+0413"; also the grave accent,     *)
(* "U+0060").  A float is the double it is in the interpreter, held        *)
(* exactly as sign, odd significand and binary exponent.                   *)
(***************************************************************************)
EXTENDS Integers, Sequences, FiniteSets, TLC

(***************************************************************************)
(* Characters and the str methods the parser uses.                         *)
(***************************************************************************)
\* the characters of the code points 32..126
Printable ==
    <<" ", "!", "\"", "#", "$", "%", "&", "'", "(", ")", "*", "+",
      ",", "-", ".", "/", "0", "1", "2", "3", "4", "5", "6", "7",
      "8", "9", ":", ";", "<", "=", ">", "?", "@", "A", "B", "C",
      "D", "E", "F", "G", "H", "I", "J", "K", "L", "M", "N", "O",
      "P", "Q", "R", "S", "T", "U", "V", "W", "X", "Y", "Z", "[",
      "\\", "]", "^", "_", "U+0060", "a", "b", "c", "d", "e", "f", "g",
      "h", "i", "j", "k", "l", "m", "n", "o", "p", "q", "r", "s",
      "t", "u", "v", "w", "x", "y", "z", "{", "|", "}", "~">>

HexDigits ==
    <<"0", "1", "2", "3", "4", "5", "6", "7", "8", "9", "A", "B", "C", "D", "E", "F">>

\* n in hexadecimal
RECURSIVE Hex(_)
Hex(n) == IF n < 16 THEN HexDigits[n + 1] ELSE Hex(n \div 16) \o HexDigits[(n % 16) + 1]

\* the name of the code point: U+ and at least four hexadecimal digits
CodePointName(cp) ==
    "U+" \o (IF cp < 16 THEN "000" ELSE IF cp < 256 THEN "00" ELSE IF cp < 4096 THEN "0" ELSE "")
         \o Hex(cp)

\* chr(cp): the printable ASCII characters, the tab and the two line ends
\* are themselves, every other character is named by its code point
CharOf(cp) ==
    IF cp \in 32..126 THEN Printable[cp - 31]
    ELSE CASE cp = 9 -> "\t"
           [] cp = 10 -> "\n"
           [] cp = 13 -> "\r"
           [] OTHER -> CodePointName(cp)

DigitChars == <<"0", "1", "2", "3", "4", "5", "6", "7", "8", "9">>

\* the code points of the digit zero of the decimal digits of Unicode
\* (category Nd, which \d matches and int() and float() convert); the other
\* nine digits of each follow it
DigitZeros ==
    {48, 1632, 1776, 1984, 2406, 2534, 2662, 2790, 2918, 3046, 3174, 3302,
     3430, 3558, 3664, 3792, 3872, 4160, 4240, 6112, 6160, 6470, 6608,
     6784, 6800, 6992, 7088, 7232, 7248, 42528, 43216, 43264, 43472, 43504,
     43600, 44016, 65296, 66720, 68912, 69734, 69872, 69942, 70096, 70384,
     70736, 70864, 71248, 71360, 71472, 71904, 72016, 72784, 73040, 73120,
     92768, 92864, 93008, 120782, 120792, 120802, 120812, 120822, 123200,
     123632, 125264, 130032}

\* the digits of Unicode with their values
DigitValues == {<<CharOf(z + d), d>> : z \in DigitZeros, d \in 0..9}

\* the characters \d matches
DigitSet == {dv[1] : dv \in DigitValues}

IsDigit(c) == c \in DigitSet

\* the decimal value of a digit
DigitVal(c) ==
    IF \E d \in DOMAIN DigitChars : DigitChars[d] = c
    THEN (CHOOSE d \in DOMAIN DigitChars : DigitChars[d] = c) - 1
    ELSE (CHOOSE dv \in DigitValues : dv[1] = c)[2]

\* the code points str.isspace() holds for, which str.strip() removes
WhiteSpaceCodePoints ==
    {9, 10, 11, 12, 13, 28, 29, 30, 31, 32, 133, 160, 5760, 8232, 8233, 8239, 8287, 12288}
        \cup 8192..8202

\* the characters str.strip() removes
WhiteSpace == {CharOf(cp) : cp \in WhiteSpaceCodePoints}

UpperChars == <<"A", "B", "C", "D", "E", "F", "G", "H", "I", "J", "K", "L", "M",
                "N", "O", "P", "Q", "R", "S", "T", "U", "V", "W", "X", "Y", "Z">>

LowerChars == <<"a", "b", "c", "d", "e", "f", "g", "h", "i", "j", "k", "l", "m",
                "n", "o", "p", "q", "r", "s", "t", "u", "v", "w", "x", "y", "z">>

LowerChar(c) ==
    IF \E k \in DOMAIN UpperChars : UpperChars[k] = c
    THEN LowerChars[CHOOSE k \in DOMAIN UpperChars : UpperChars[k] = c]
    ELSE c

\* str.lower()
Lower(s) == [k \in 1..Len(s) |-> LowerChar(s[k])]

\* Step applied to the state st for j = lo, lo + 1, .. hi in turn.  The range
\* is halved and the first half is computed before the second is entered,
\* which keeps the evaluation as shallow as the logarithm of the range.
RECURSIVE Fold(_, _, _, _)
Fold(Step(_, _), st, lo, hi) ==
    IF lo > hi THEN st
    ELSE IF lo = hi THEN Step(st, lo)
    ELSE LET mid == (lo + hi) \div 2
         IN  CHOOSE r \in {Fold(Step, left, mid + 1, hi) :
                               left \in {Fold(Step, st, lo, mid)}} : TRUE

\* str.strip(): s from its first to its last character that is no
\* whitespace
Strip(s) ==
    LET inked == {k \in DOMAIN s : s[k] \notin WhiteSpace}
    IN  IF inked = {} THEN <<>>
        ELSE SubSeq(s, CHOOSE k \in inked : \A j \in inked : k <= j,
                       CHOOSE k \in inked : \A j \in inked : j <= k)

\* str.startswith(p)
StartsWith(s, p) == Len(s) >= Len(p) /\ SubSeq(s, 1, Len(p)) = p

\* p in s
Contains(s, p) ==
    \E k \in 1..(Len(s) - Len(p) + 1) : SubSeq(s, k, k + Len(p) - 1) = p

\* the least element of a non-empty set of positions
MinOf(S) == CHOOSE k \in S : \A j \in S : k <= j

\* str.replace(old, ""), left to right, non-overlapping
RECURSIVE Remove(_, _)
Remove(s, old) ==
    LET hits == {k \in 1..(Len(s) - Len(old) + 1) : SubSeq(s, k, k + Len(old) - 1) = old}
    IN  IF hits = {} THEN s
        ELSE SubSeq(s, 1, MinOf(hits) - 1)
                 \o Remove(SubSeq(s, MinOf(hits) + Len(old), Len(s)), old)

\* str.split('\n'): the pieces of s between its line breaks
Split(s) ==
    LET IsBreak(p) == s[p] = "\n"
        breaks     == SelectSeq([p \in 1..Len(s) |-> p], IsBreak)
    IN  [j \in 1..(Len(breaks) + 1) |->
            SubSeq(s, IF j = 1 THEN 1 ELSE breaks[j - 1] + 1,
                      IF j <= Len(breaks) THEN breaks[j] - 1 ELSE Len(s))]

\* the newline translation of a file read in text mode: "\r\n" and "\r"
\* are read as "\n"
UniversalNewlines(text) ==
    LET Kept(p) == ~(text[p] = "\n" /\ p > 1 /\ text[p - 1] = "\r")
        kept    == SelectSeq([p \in 1..Len(text) |-> p], Kept)
    IN  [j \in 1..Len(kept) |-> IF text[kept[j]] = "\r" THEN "\n" ELSE text[kept[j]]]

\* "".join(ss)
Concat(ss) == Fold(LAMBDA joined, j : joined \o ss[j], <<>>, 1, Len(ss))

(***************************************************************************)
(* Text Scanner: NUMBER_REGEX and INTEGER_REGEX with re.findall.           *)
(***************************************************************************)
\* the length of the run of digits of s that starts at p
DigitRun(s, p) ==
    LET stops == {q \in p..Len(s) : ~IsDigit(s[q])}
    IN  IF p > Len(s) THEN 0
        ELSE IF stops = {} THEN Len(s) + 1 - p
        ELSE MinOf(stops) - p

\* NUMBER_REGEX  -?\d+\.?\d*(?:[eE][+-]?\d+)?  at p of s, part by part.
\* Every part after \d+ is optional, so the greedy choices are the match.
\* -? : the position of the digits
MantissaAt(s, p) == IF s[p] = "-" THEN p + 1 ELSE p

\* \d+ : the position after the digits
PointAt(s, p) == MantissaAt(s, p) + DigitRun(s, MantissaAt(s, p))

\* \.? : the position of the fraction
FractionAt(s, p) ==
    IF PointAt(s, p) <= Len(s) /\ s[PointAt(s, p)] = "." THEN PointAt(s, p) + 1
    ELSE PointAt(s, p)

\* \d* : the position after the fraction, where an exponent may start
ExponentAt(s, p) == FractionAt(s, p) + DigitRun(s, FractionAt(s, p))

\* [eE][+-]? at d: the position of the digits of the exponent
ExponentDigitsAt(s, d) ==
    IF d + 1 <= Len(s) /\ s[d + 1] \in {"+", "-"} THEN d + 2 ELSE d + 1

\* (?:[eE][+-]?\d+)? at d with its digits at f: the position after it
ExponentEnd(s, d, f) ==
    IF d <= Len(s) /\ s[d] \in {"e", "E"} /\ DigitRun(s, f) > 0
    THEN f + DigitRun(s, f) ELSE d

\* the position after the match of NUMBER_REGEX at p, or 0 when there is no
\* match at p
NumberMatchEnd(s, p) ==
    IF PointAt(s, p) = MantissaAt(s, p) THEN 0
    ELSE ExponentEnd(s, ExponentAt(s, p), ExponentDigitsAt(s, ExponentAt(s, p)))

\* INTEGER_REGEX  \d+  matched at p
IntegerMatchEnd(s, p) == IF DigitRun(s, p) = 0 THEN 0 ELSE p + DigitRun(s, p)

\* the matches of NUMBER_REGEX in s from p on: the scan goes on behind each
\* match, at the next position where one starts, which is a digit or a "-"
\* before a digit
RECURSIVE NumberFindAll(_, _)
NumberFindAll(s, p) ==
    LET starts == {q \in p..Len(s) :
                       \/ IsDigit(s[q])
                       \/ s[q] = "-" /\ q < Len(s) /\ IsDigit(s[q + 1])}
    IN  IF starts = {} THEN <<>>
        ELSE <<SubSeq(s, MinOf(starts), NumberMatchEnd(s, MinOf(starts)) - 1)>>
                 \o NumberFindAll(s, NumberMatchEnd(s, MinOf(starts)))

\* the matches of INTEGER_REGEX in s from p on
RECURSIVE IntegerFindAll(_, _)
IntegerFindAll(s, p) ==
    LET starts == {q \in p..Len(s) : IsDigit(s[q])}
    IN  IF starts = {} THEN <<>>
        ELSE <<SubSeq(s, MinOf(starts), IntegerMatchEnd(s, MinOf(starts)) - 1)>>
                 \o IntegerFindAll(s, IntegerMatchEnd(s, MinOf(starts)))

\* cls.NUMBER_REGEX.findall(line)
FindNumbers(line) == NumberFindAll(line, 1)

\* cls.INTEGER_REGEX.findall(line)
FindIntegers(line) == IntegerFindAll(line, 1)

(***************************************************************************)
(* Numbers: int(), float(), round(x, 6), 1.0 - x and the format            *)
(* specifications.  A float is the IEEE 754 double it is in the            *)
(* interpreter, held exactly: [k |-> "fin", neg, man, exp] is              *)
(* (-1)^neg * man * 2^exp with man odd, or man = 0 and exp = 0 for zero;   *)
(* k = "inf" and k = "nan" are the other values.  man is a natural of any  *)
(* size: the sequence of its digits in base 2^15, least significant first  *)
(* (<<>> is 0, <<3>> is 3, <<0, 1>> is 32768).                             *)
(***************************************************************************)
RECURSIVE Pow10(_)
Pow10(n) == IF n = 0 THEN 1 ELSE 10 * Pow10(n - 1)

RECURSIVE Pow2(_)
Pow2(n) == IF n = 0 THEN 1 ELSE 2 * Pow2(n - 1)

\* the bits of a digit of a natural of any size
LimbBits == 15

LimbBase == Pow2(LimbBits)

\* the natural without its leading zero digits
Trim(a) ==
    LET nonzero == {j \in DOMAIN a : a[j] # 0}
    IN  IF nonzero = {} THEN <<>>
        ELSE SubSeq(a, 1, CHOOSE j \in nonzero : \A h \in nonzero : h <= j)

\* the natural of an int n >= 0
BigOfInt(n) ==
    Trim(<<n % LimbBase, (n \div LimbBase) % LimbBase, n \div (LimbBase * LimbBase)>>)

\* the digits out with the carry above them
Carried(st) == Trim(st.out \o BigOfInt(st.carry))

\* a * k + c for ints 0 <= k, c < LimbBase
MulAdd(a, k, c) ==
    Carried(Fold(LAMBDA s, j : [out   |-> Append(s.out, (a[j] * k + s.carry) % LimbBase),
                                carry |-> (a[j] * k + s.carry) \div LimbBase],
                 [out |-> <<>>, carry |-> c], 1, Len(a)))

\* a * k
MulSmall(a, k) == MulAdd(a, k, 0)

\* a divided by an int 0 < d < LimbBase: quotient and remainder, the digits
\* of a taken from the most significant down
DivSmall(a, d) ==
    [Fold(LAMBDA s, i : [q |-> <<(s.r * LimbBase + a[Len(a) + 1 - i]) \div d>> \o s.q,
                         r |-> (s.r * LimbBase + a[Len(a) + 1 - i]) % d],
          [q |-> <<>>, r |-> 0], 1, Len(a))
     EXCEPT !.q = Trim(@)]

\* the digit j of a, 0 beyond its length
Limb(a, j) == IF j <= Len(a) THEN a[j] ELSE 0

\* a + b
Add(a, b) ==
    Carried(Fold(LAMBDA s, j :
                     [out   |-> Append(s.out, (Limb(a, j) + Limb(b, j) + s.carry) % LimbBase),
                      carry |-> (Limb(a, j) + Limb(b, j) + s.carry) \div LimbBase],
                 [out |-> <<>>, carry |-> 0], 1,
                 IF Len(a) > Len(b) THEN Len(a) ELSE Len(b)))

\* a + 1
AddOne(a) == Add(a, <<1>>)

\* a - b, for a >= b
Sub(a, b) ==
    Trim(Fold(LAMBDA s, j :
                  [out    |-> Append(s.out,
                                     (a[j] - Limb(b, j) - s.borrow + LimbBase) % LimbBase),
                   borrow |-> IF a[j] - Limb(b, j) - s.borrow < 0 THEN 1 ELSE 0],
              [out |-> <<>>, borrow |-> 0], 1, Len(a)).out)

\* a < b
Less(a, b) ==
    LET differ == {j \in 1..Len(a) : a[j] # Limb(b, j)}
        top    == CHOOSE j \in differ : \A h \in differ : h <= j
    IN  IF Len(a) # Len(b) THEN Len(a) < Len(b)
        ELSE differ # {} /\ a[top] < b[top]

\* the number of bits of an int n >= 0
RECURSIVE BitLenInt(_)
BitLenInt(n) == IF n = 0 THEN 0 ELSE 1 + BitLenInt(n \div 2)

\* the number of bits of a
BitLen(a) == IF a = <<>> THEN 0 ELSE (Len(a) - 1) * LimbBits + BitLenInt(a[Len(a)])

\* the bit of weight 2^k of a
Bit(a, k) == (Limb(a, (k \div LimbBits) + 1) \div Pow2(k % LimbBits)) % 2

\* a * 2^s
ShiftLeft(a, s) ==
    IF a = <<>> THEN <<>>
    ELSE [j \in 1..(s \div LimbBits) |-> 0] \o MulSmall(a, Pow2(s % LimbBits))

\* a divided by 2^s, rounded down
ShiftRight(a, s) ==
    IF s \div LimbBits >= Len(a) THEN <<>>
    ELSE DivSmall(SubSeq(a, (s \div LimbBits) + 1, Len(a)), Pow2(s % LimbBits)).q

\* a is no multiple of 2^s
LowBits(a, s) ==
    \/ \E j \in 1..(s \div LimbBits) : Limb(a, j) # 0
    \/ Limb(a, (s \div LimbBits) + 1) % Pow2(s % LimbBits) # 0

\* the number of zero bits below the lowest one bit of a # 0
TrailingZeros(a) ==
    LET nonzero == {j \in DOMAIN a : a[j] # 0}
        low     == CHOOSE j \in nonzero : \A h \in nonzero : j <= h
        InLimb  == CHOOSE t \in 0..(LimbBits - 1) :
                       /\ a[low] % Pow2(t + 1) # 0
                       /\ a[low] % Pow2(t) = 0
    IN  (low - 1) * LimbBits + InLimb

\* the digits of a chunk of powers of ten
ChunkDigits == 4

\* a * 10^n
TimesPow10(a, n) ==
    MulSmall(Fold(LAMBDA s, j : MulSmall(s, Pow10(ChunkDigits)), a, 1, n \div ChunkDigits),
             Pow10(n % ChunkDigits))

\* s.q divided by ten, rounded down, and whether anything has been cut off
DivCut(s, ten) ==
    [q |-> DivSmall(s.q, ten).q, cut |-> s.cut \/ DivSmall(s.q, ten).r # 0]

\* a divided by 10^n, rounded down, and whether anything was cut off
OverPow10(a, n, cut) ==
    DivCut(Fold(LAMBDA s, j : DivCut(s, Pow10(ChunkDigits)),
                [q |-> a, cut |-> cut], 1, n \div ChunkDigits),
           Pow10(n % ChunkDigits))

\* ds without its leading zeros
Significant(ds) ==
    LET nonzero == {j \in 1..Len(ds) : ds[j] # 0}
    IN  IF nonzero = {} THEN <<>> ELSE SubSeq(ds, MinOf(nonzero), Len(ds))

\* the decimal digits of a, as digit values, most significant first
DecimalsOf(a) ==
    Significant(Fold(LAMBDA s, j : [q  |-> DivSmall(s.q, 10).q,
                                    ds |-> <<DivSmall(s.q, 10).r>> \o s.ds],
                     [q |-> a, ds |-> <<>>], 1, (BitLen(a) * 31) \div 100 + 1).ds)

\* digits after the decimal point in ".6f" and in round(x, 6)
Precision == 6

\* the bits of the significand of a double
MantissaBits == 53

\* the exponent of the least bit of the least double above zero
MinExponent == 0 - 1074

\* every double is below 2^MaxExponent
MaxExponent == 1024

\* a decimal of more integer digits than this is beyond every double
MaxExp10 == 309

\* a decimal below 10^MinExp10 is below half the least double above zero
MinExp10 == 0 - 324

\* the double (-1)^neg * man * 2^exp
Double(neg, man, exp) == [k |-> "fin", neg |-> neg, man |-> man, exp |-> exp]

\* 0.0 and -0.0
Zero(neg) == Double(neg, <<>>, 0)

Inf(neg) == [k |-> "inf", neg |-> neg, man |-> <<>>, exp |-> 0]

\* float('nan'), which no token of a file gives but a mesh can hold
Nan == [k |-> "nan", neg |-> FALSE, man |-> <<>>, exp |-> 0]

\* the natural nearest to (n + f) / 2^drop, ties to even, for drop > 0 and a
\* fraction f in [0, 1) that is not 0 exactly if sticky
RoundHalfEven(n, drop, sticky) ==
    IF /\ Bit(n, drop - 1) = 1
       /\ (sticky \/ LowBits(n, drop - 1) \/ Bit(n, drop) = 1)
    THEN AddOne(ShiftRight(n, drop))
    ELSE ShiftRight(n, drop)

\* the double m * 2^exp, for m of no more bits than a significand: m is
\* made odd, and a value of 2^MaxExponent or more is inf
Normal(neg, m, exp) ==
    IF m = <<>> THEN Zero(neg)
    ELSE IF BitLen(m) + exp > MaxExponent THEN Inf(neg)
    ELSE Double(neg, ShiftRight(m, TrailingZeros(m)), exp + TrailingZeros(m))

\* the exponent of the least bit of the doubles of the size of n * 2^e:
\* below the least normal double the significand is shorter
LeastBit(n, e) ==
    IF e + BitLen(n) - MantissaBits < MinExponent THEN MinExponent
    ELSE e + BitLen(n) - MantissaBits

\* the double nearest to (n + f) * 2^e, ties to even, where n is a natural
\* and f a fraction in [0, 1) that is not 0 exactly if sticky; with sticky
\* n has more bits than a significand
RoundToDouble(neg, n, e, sticky) ==
    IF LeastBit(n, e) <= e THEN Normal(neg, n, e)
    ELSE Normal(neg, RoundHalfEven(n, LeastBit(n, e) - e, sticky), LeastBit(n, e))

\* the bits to shift d by, so that its quotient by 10^(-p) is longer than a
\* significand
ExtraBits(d, p) ==
    IF (MantissaBits + 3) + ((0 - p) * 10) \div 3 + 1 - BitLen(d) > 0
    THEN (MantissaBits + 3) + ((0 - p) * 10) \div 3 + 1 - BitLen(d)
    ELSE 0

\* the double nearest to the quotient res in units of 2^(-s)
DoubleOfQuotient(neg, res, s) == RoundToDouble(neg, res.q, 0 - s, res.cut)

\* the double nearest to d * 10^p, for a natural d
DoubleOfDecimal(neg, d, p) ==
    IF d = <<>> THEN Zero(neg)
    ELSE IF p >= 0 THEN RoundToDouble(neg, TimesPow10(d, p), 0, FALSE)
    ELSE DoubleOfQuotient(neg, OverPow10(ShiftLeft(d, ExtraBits(d, p)), 0 - p, FALSE),
                          ExtraBits(d, p))

\* the natural nearest to |x| * 10^Precision, ties to even, for finite x
Scaled(x) ==
    IF x.exp >= 0 THEN ShiftLeft(TimesPow10(x.man, Precision), x.exp)
    ELSE RoundHalfEven(TimesPow10(x.man, Precision), 0 - x.exp, FALSE)

\* units per 1.0 of a decimal of Precision + 1 places
Scale == Pow10(Precision + 1)

\* the double nearest to m / Scale
Fin(neg, m) == DoubleOfDecimal(neg, BigOfInt(m), 0 - Precision - 1)

\* a == b on floats: -0.0 == 0.0, and nan equals nothing
FloatEq(x, y) ==
    /\ x.k # "nan"
    /\ x.k = y.k
    /\ x.man = y.man /\ x.exp = y.exp
    /\ (x.neg = y.neg \/ (x.k = "fin" /\ x.man = <<>>))

\* t without its leading zeros
LStripZeros(t) ==
    LET nonzero == {q \in 1..Len(t) : DigitVal(t[q]) # 0}
    IN  IF nonzero = {} THEN <<>> ELSE SubSeq(t, MinOf(nonzero), Len(t))

\* t without its trailing zeros
RStripZeros(t) ==
    LET nonzero == {q \in 1..Len(t) : DigitVal(t[q]) # 0}
    IN  IF nonzero = {} THEN <<>>
        ELSE SubSeq(t, 1, CHOOSE q \in nonzero : \A h \in nonzero : h <= q)

\* the value of a run of digits
DigitsValue(t) == Fold(LAMBDA s, j : 10 * s + DigitVal(t[j]), 0, 1, Len(t))

\* the value of a run of digits, as a natural of any size
DigitsBig(t) == Fold(LAMBDA s, j : MulAdd(s, 10, DigitVal(t[j])), <<>>, 1, Len(t))

\* int() refuses a string of more digits than this (the interpreter's
\* default limit of integer string conversion)
IntMaxStrDigits == 4300

\* int(token) raises ValueError
IntRaises(t) == Len(t) > IntMaxStrDigits

\* int(token) of a token of digits that int() accepts
IntOf(t) == DigitsValue(LStripZeros(t))

\* the double of the digits sig, n2 of them behind the point, times 10^exp:
\* the nearest one, inf beyond the doubles
FloatValue(neg, sig, n2, exp) ==
    IF Len(sig) - n2 + exp > MaxExp10 THEN Inf(neg)
    ELSE IF Len(sig) - n2 + exp < MinExp10 THEN Zero(neg)
    ELSE DoubleOfDecimal(neg, DigitsBig(RStripZeros(sig)),
                         exp - n2 + (Len(sig) - Len(RStripZeros(sig))))

\* the same with the exponent as its digits exd, behind a "-" if eneg
FloatExponent(neg, sig, n2, eneg, exd) ==
    IF sig = <<>> THEN Zero(neg)
    ELSE IF Len(exd) > 8 THEN (IF eneg THEN Zero(neg) ELSE Inf(neg))
    ELSE FloatValue(neg, sig, n2, IF eneg THEN 0 - DigitsValue(exd) ELSE DigitsValue(exd))

\* the token t with its digits at a, its point at b, its fraction at c and
\* its exponent at d
FloatParts(t, a, b, c, d) ==
    FloatExponent(t[1] = "-",
                  LStripZeros(SubSeq(t, a, b - 1) \o SubSeq(t, c, d - 1)),
                  d - c,
                  d <= Len(t) /\ t[d + 1] = "-",
                  IF d > Len(t) THEN <<>>
                  ELSE LStripZeros(SubSeq(t, ExponentDigitsAt(t, d), Len(t))))

\* float(token) of a NUMBER_REGEX token: sign, digits, fraction, exponent
FloatOf(t) ==
    FloatParts(t, MantissaAt(t, 1), PointAt(t, 1), FractionAt(t, 1), ExponentAt(t, 1))

\* the decimal digits of n >= 0
RECURSIVE IntStr(_)
IntStr(n) ==
    IF n < 10 THEN <<DigitChars[n + 1]>>
    ELSE IntStr(n \div 10) \o <<DigitChars[(n % 10) + 1]>>

\* s right-aligned in a field of w characters
RECURSIVE PadLeft(_, _, _)
PadLeft(s, w, c) == IF Len(s) >= w THEN s ELSE PadLeft(<<c>> \o s, w, c)

\* format(n, str(w)) of an int: right-aligned, the sign before the digits
FormatInt(n, w) ==
    PadLeft(IF n < 0 THEN <<"-">> \o IntStr(0 - n) ELSE IntStr(n), w, " ")

\* the digits ds of a natural with a point before the last Precision of
\* them, zeros before the digits where there are not enough
FixedPoint(ds) ==
    LET digits == PadLeft([j \in 1..Len(ds) |-> DigitChars[ds[j] + 1]], Precision + 1, "0")
    IN  SubSeq(digits, 1, Len(digits) - Precision) \o <<".">>
            \o SubSeq(digits, Len(digits) - Precision + 1, Len(digits))

\* format(x, ".6f") of a float
FormatFloat(x) ==
    IF x.k = "nan" THEN <<"n", "a", "n">>
    ELSE IF x.k = "inf" THEN (IF x.neg THEN <<"-">> ELSE <<>>) \o <<"i", "n", "f">>
    ELSE (IF x.neg THEN <<"-">> ELSE <<>>) \o FixedPoint(DecimalsOf(Scaled(x)))

\* round(x, 6): the double nearest to the decimal of six places nearest to x
Round6(x) == IF x.k # "fin" THEN x ELSE DoubleOfDecimal(x.neg, Scaled(x), 0 - Precision)

\* -x
Neg(x) == IF x.k = "nan" THEN x ELSE [x EXCEPT !.neg = ~@]

\* one - (-1)^neg * man in units of 2^e, as a double
Difference(neg, one, man, e) ==
    IF neg THEN RoundToDouble(FALSE, Add(one, man), e, FALSE)
    ELSE IF man = one THEN Zero(FALSE)
    ELSE IF Less(man, one) THEN RoundToDouble(FALSE, Sub(one, man), e, FALSE)
    ELSE RoundToDouble(TRUE, Sub(man, one), e, FALSE)

\* 1.0 - x: the double nearest to the difference
OneMinus(x) ==
    IF x.k = "nan" THEN x
    ELSE IF x.k = "inf" THEN Inf(~x.neg)
    ELSE IF x.man = <<>> THEN Double(FALSE, <<1>>, 0)
    ELSE IF x.exp >= 0 THEN Difference(x.neg, <<1>>, ShiftLeft(x.man, x.exp), 0)
    ELSE Difference(x.neg, ShiftLeft(<<1>>, 0 - x.exp), x.man, x.exp)

(***************************************************************************)
(* Mesh Model: class DMDMesh.                                              *)
(***************************************************************************)
TriMesh == <<"T", "r", "i", "M", "e", "s", "h">>

\* DMDMesh()
DMDMesh ==
    [vertices |-> <<>>, faces |-> <<>>, texture_vertices |-> <<>>,
     texture_faces |-> <<>>, object_name |-> TriMesh]

(***************************************************************************)
(* Format Decoder: the literals of DMDParser._parse_content.               *)
(***************************************************************************)
NewObjectMarker == <<"N", "e", "w", " ", "o", "b", "j", "e", "c", "t">>

MeshVerticesHeader == <<"M", "e", "s", "h", " ", "v", "e", "r", "t", "i", "c", "e", "s", ":">>

MeshFacesHeader == <<"M", "e", "s", "h", " ", "f", "a", "c", "e", "s", ":">>

TextureVerticesHeader == <<"T", "e", "x", "t", "u", "r", "e", " ", "v", "e", "r", "t", "i", "c", "e", "s", ":">>

TextureFacesHeader == <<"T", "e", "x", "t", "u", "r", "e", " ", "f", "a", "c", "e", "s", ":">>

Parens == <<"(", ")">>

\* the dict section_map, as the set of its (key, value) pairs
section_map ==
    {<<MeshVerticesHeader, "vertices">>, <<MeshFacesHeader, "faces">>,
     <<TextureVerticesHeader, "texture_vertices">>,
     <<TextureFacesHeader, "texture_faces">>}

\* line in section_map
InSectionMap(line) == \E e \in section_map : e[1] = line

\* section_map[line]
SectionOf(line) == (CHOOSE e \in section_map : e[1] = line)[2]

\* the keywords that end a section
EndKeywords == {<<"e", "n", "d">>, <<"n", "e", "w">>}

\* the keyword test without line.lower()
IsSectionEnd_CaseSensitive(line) == \E kw \in EndKeywords : Contains(line, kw)

\* any(keyword in line.lower() for keyword in ['end', 'new'])
IsSectionEnd(line) == \E kw \in EndKeywords : Contains(Lower(line), kw)

\* [line.strip() for line in content.split('\n') if line.strip()]
StripNonEmpty(raw) ==
    LET NonEmpty(ln) == ln # <<>>
    IN  SelectSeq([k \in 1..Len(raw) |-> Strip(raw[k])], NonEmpty)

ContentLines(text) == StripNonEmpty(Split(text))

(***************************************************************************)
(* Format Encoder: DMDParser.write_file, the text it writes.               *)
(***************************************************************************)
\* the lines, each ended by a line break
FileText(ls) == Concat([k \in 1..Len(ls) |-> ls[k] \o <<"\n">>])

\* "   {a:8}   {b:8}"
CountsLine(a, b) ==
    <<" ", " ", " ">> \o FormatInt(a, 8) \o <<" ", " ", " ">> \o FormatInt(b, 8)

\* "\t{vertex[0]:.6f} {vertex[1]:.6f} {vertex[2]:.6f}"
VertexText(v) ==
    <<"\t">> \o FormatFloat(v[1]) \o <<" ">> \o FormatFloat(v[2]) \o <<" ">>
             \o FormatFloat(v[3])

\* "\t{face[0] + 1:6} {face[1] + 1:6} {face[2] + 1:6}"
FaceText(f) ==
    <<"\t">> \o FormatInt(f[1] + 1, 6) \o <<" ">> \o FormatInt(f[2] + 1, 6) \o <<" ">>
             \o FormatInt(f[3] + 1, 6)

\* "\t{tvert[0]:.6f} {tvert[1]:.6f} 0.000000"
TextureVertexText(tv) ==
    <<"\t">> \o FormatFloat(tv[1]) \o <<" ">> \o FormatFloat(tv[2])
             \o <<" ", "0", ".", "0", "0", "0", "0", "0", "0">>

\* the fixed lines write_file writes
EndVertices == <<"e", "n", "d", " ", "v", "e", "r", "t", "i", "c", "e", "s">>

EndFaces == <<"e", "n", "d", " ", "f", "a", "c", "e", "s">>

EndMesh == <<"e", "n", "d", " ", "m", "e", "s", "h">>

NewTexture == <<"N", "e", "w", " ", "T", "e", "x", "t", "u", "r", "e", ":">>

NumVertsNumFaces == <<"n", "u", "m", "v", "e", "r", "t", "s", " ", "n", "u", "m", "f", "a", "c", "e", "s">>

NumTVertsNumTVFaces == <<"n", "u", "m", "t", "v", "e", "r", "t", "s", " ", "n", "u", "m", "t", "v", "f", "a", "c", "e", "s">>

EndTextureVertices == <<"e", "n", "d", " ", "t", "e", "x", "t", "u", "r", "e", " ", "v", "e", "r", "t", "i", "c", "e", "s">>

EndTextureFaces == <<"e", "n", "d", " ", "t", "e", "x", "t", "u", "r", "e", " ", "f", "a", "c", "e", "s">>

EndOfTexture == <<"e", "n", "d", " ", "o", "f", " ", "t", "e", "x", "t", "u", "r", "e">>

EndOfFile == <<"e", "n", "d", " ", "o", "f", " ", "f", "i", "l", "e">>

\* the object header, the vertices block and the faces block
MeshBlock(m) ==
    <<NewObjectMarker,
      m.object_name \o Parens,
      NumVertsNumFaces,
      CountsLine(Len(m.vertices), Len(m.faces)),
      MeshVerticesHeader>>
    \o [k \in 1..Len(m.vertices) |-> VertexText(m.vertices[k])]
    \o <<EndVertices,
         MeshFacesHeader>>
    \o [k \in 1..Len(m.faces) |-> FaceText(m.faces[k])]
    \o <<EndFaces,
         EndMesh>>

\* the texture block, written whole
TextureBlock(m) ==
    <<NewTexture,
      NumTVertsNumTVFaces,
      CountsLine(Len(m.texture_vertices), Len(m.texture_faces)),
      TextureVerticesHeader>>
    \o [k \in 1..Len(m.texture_vertices) |-> TextureVertexText(m.texture_vertices[k])]
    \o <<EndTextureVertices,
         TextureFacesHeader>>
    \o [k \in 1..Len(m.texture_faces) |-> FaceText(m.texture_faces[k])]
    \o <<EndTextureFaces,
         EndOfTexture>>

\* the texture block also written for a mesh that has only texture faces
HasTextureBlock_AnyTexture(m) == m.texture_vertices # <<>> \/ m.texture_faces # <<>>

\* if mesh.texture_vertices
HasTextureBlock(m) == m.texture_vertices # <<>>

\* the lines write_file writes for the mesh, in order
FileLines(m) ==
    MeshBlock(m)
    \o (IF HasTextureBlock(m) THEN TextureBlock(m) ELSE <<>>)
    \o <<<<"e", "n", "d", " ", "o", "f", " ", "f", "i", "l", "e">>>>

(***************************************************************************)
(* State.                                                                  *)
(***************************************************************************)
VARIABLES
    pc,               \* the program point
    content,          \* _parse_content: the text to decode
    lines,            \* _parse_content: the stripped non-empty lines
    i,                \* _parse_content: the line index (0-based)
    current_section,  \* _parse_content: "" or the section being read
    mesh,             \* _parse_content: the DMDMesh being filled
    dmd_mesh,         \* the DMDMesh an export builds and write_file is given
    files,            \* the files written, in order: [path, text]
    data,             \* parse_file: the bytes of the file
    encoding,         \* parse_file: the encoding being tried
    error,            \* parse_file: the exception raised, or "" for none
    mesh_vertices,    \* object_to_dmd_mesh: the vertices of the evaluated mesh
    polygons,         \* object_to_dmd_mesh: its polygons: [vertices, uvs]
    uv_layers,        \* object_to_dmd_mesh: the mesh has a UV layer
    flip_y,           \* the operator's options
    flip_z,
    flip_faces,
    export_uv,
    poly,             \* object_to_dmd_mesh: polygons done by the UV loop
    uv_dict,          \* object_to_dmd_mesh: uv_key -> index, as (key, index) pairs
    uv_list,          \* object_to_dmd_mesh: the UV coordinates kept
    export_mode,      \* ExportDMD: 'ACTIVE', 'SELECTED', 'ALL_MESH' or 'COMBINED'
    active_object,    \* context.active_object, NoObject for None
    objects,          \* the objects given to the batch export
    mesh_objects,     \* those of type 'MESH'
    obj,              \* objects the export loop is done with
    combined_mesh,    \* export_combined_objects: the merged DMDMesh
    vertex_offset,    \* export_combined_objects
    uv_offset,        \* export_combined_objects
    exported_count,   \* export_multiple_objects
    reports,          \* self.report calls, in order: [level, count]
    result            \* the operator's return value, or "" before it returns

parserVars == <<content, lines, i, current_section, mesh>>

writerVars == <<dmd_mesh, files>>

fileVars == <<data, encoding, error>>

uvVars ==
    <<mesh_vertices, polygons, uv_layers, flip_y, flip_z, flip_faces, export_uv,
      poly, uv_dict, uv_list>>

exportVars ==
    <<export_mode, active_object, objects, mesh_objects, obj, combined_mesh,
      vertex_offset, uv_offset, exported_count, reports, result>>

vars == <<pc, parserVars, writerVars, fileVars, uvVars, exportVars>>

\* what the decoder does not touch
notParser == <<writerVars, fileVars, uvVars, exportVars>>

(***************************************************************************)
(* DMDParser._parse_content, one action per branch of the line loop.       *)
(***************************************************************************)
\* the line the loop is at
line == lines[i + 1]

\* mesh = DMDMesh(); lines = [...]; current_section = ''; i = 0
ParseBegin ==
    /\ pc = "parse_content"
    /\ mesh' = DMDMesh
    /\ lines' = ContentLines(content)
    /\ current_section' = ""
    /\ i' = 0
    /\ pc' = "loop"
    /\ UNCHANGED content
    /\ UNCHANGED notParser

\* NewObject with i += 1 in place of i += 2: the name line is read again
NewObject_Reparse ==
    /\ pc = "loop" /\ i < Len(lines)
    /\ StartsWith(line, NewObjectMarker)
    /\ mesh' = IF i + 1 < Len(lines)
               THEN [mesh EXCEPT !.object_name = Strip(Remove(lines[i + 2], Parens))]
               ELSE mesh
    /\ i' = i + 1
    /\ UNCHANGED <<pc, content, lines, current_section>>
    /\ UNCHANGED notParser

\* if line.startswith('New object'): the next line is the object name
NewObject ==
    /\ pc = "loop" /\ i < Len(lines)
    /\ StartsWith(line, NewObjectMarker)
    /\ mesh' = IF i + 1 < Len(lines)
               THEN [mesh EXCEPT !.object_name = Strip(Remove(lines[i + 2], Parens))]
               ELSE mesh
    /\ i' = i + 2
    /\ UNCHANGED <<pc, content, lines, current_section>>
    /\ UNCHANGED notParser

\* if line in section_map
SectionHeader ==
    /\ pc = "loop" /\ i < Len(lines)
    /\ ~StartsWith(line, NewObjectMarker)
    /\ InSectionMap(line)
    /\ current_section' = SectionOf(line)
    /\ i' = i + 1
    /\ UNCHANGED <<pc, content, lines, mesh>>
    /\ UNCHANGED notParser

\* if any(keyword in line.lower() for keyword in ['end', 'new'])
SectionEnd ==
    /\ pc = "loop" /\ i < Len(lines)
    /\ ~StartsWith(line, NewObjectMarker)
    /\ ~InSectionMap(line)
    /\ IsSectionEnd(line)
    /\ current_section' = ""
    /\ i' = i + 1
    /\ UNCHANGED <<pc, content, lines, mesh>>
    /\ UNCHANGED notParser

\* the loop has reached the data branches
AtDataLine ==
    /\ pc = "loop" /\ i < Len(lines)
    /\ ~StartsWith(line, NewObjectMarker)
    /\ ~InSectionMap(line)
    /\ ~IsSectionEnd(line)

\* (float(coords[0]), float(coords[1]), float(coords[2]))
VertexOf(coords) == <<FloatOf(coords[1]), FloatOf(coords[2]), FloatOf(coords[3])>>

\* the vertices after a data line of the vertices section
VerticesAfter(vs, ln) ==
    IF Len(FindNumbers(ln)) >= 3 THEN Append(vs, VertexOf(FindNumbers(ln))) ELSE vs

\* (int(indices[0]) - 1, int(indices[1]) - 1, int(indices[2]) - 1)
FaceOf(indices) == <<IntOf(indices[1]) - 1, IntOf(indices[2]) - 1, IntOf(indices[3]) - 1>>

\* the faces (or texture faces) after a data line of their section
FacesAfter(fs, ln) ==
    IF Len(FindIntegers(ln)) >= 3 THEN Append(fs, FaceOf(FindIntegers(ln))) ELSE fs

\* (float(coords[0]), float(coords[1]))
TextureVertexOf(coords) == <<FloatOf(coords[1]), FloatOf(coords[2])>>

\* the texture vertices after a data line of the texture_vertices section
TextureVerticesAfter(tvs, ln) ==
    IF Len(FindNumbers(ln)) >= 2 THEN Append(tvs, TextureVertexOf(FindNumbers(ln)))
    ELSE tvs

\* int(idx) raises for one of the three indices a data line gives
IndicesRaise(ln) ==
    Len(FindIntegers(ln)) >= 3 /\ \E k \in 1..3 : IntRaises(FindIntegers(ln)[k])

\* the ValueError of int(), which nothing in the decoder catches
IntegerLimitError == "ValueError: Exceeds the limit for integer string conversion"

\* if current_section == 'vertices'
VertexLine ==
    /\ AtDataLine /\ current_section = "vertices"
    /\ mesh' = [mesh EXCEPT !.vertices = VerticesAfter(@, line)]
    /\ i' = i + 1
    /\ UNCHANGED <<pc, content, lines, current_section>>
    /\ UNCHANGED notParser

\* elif current_section == 'faces'
FaceLine ==
    /\ AtDataLine /\ current_section = "faces"
    /\ IF IndicesRaise(line)
       THEN /\ error' = IntegerLimitError
            /\ pc' = "raised"
            /\ UNCHANGED <<mesh, i>>
       ELSE /\ mesh' = [mesh EXCEPT !.faces = FacesAfter(@, line)]
            /\ i' = i + 1
            /\ UNCHANGED <<pc, error>>
    /\ UNCHANGED <<content, lines, current_section>>
    /\ UNCHANGED <<writerVars, data, encoding, uvVars, exportVars>>

\* elif current_section == 'texture_vertices'
TextureVertexLine ==
    /\ AtDataLine /\ current_section = "texture_vertices"
    /\ mesh' = [mesh EXCEPT !.texture_vertices = TextureVerticesAfter(@, line)]
    /\ i' = i + 1
    /\ UNCHANGED <<pc, content, lines, current_section>>
    /\ UNCHANGED notParser

\* elif current_section == 'texture_faces'
TextureFaceLine ==
    /\ AtDataLine /\ current_section = "texture_faces"
    /\ IF IndicesRaise(line)
       THEN /\ error' = IntegerLimitError
            /\ pc' = "raised"
            /\ UNCHANGED <<mesh, i>>
       ELSE /\ mesh' = [mesh EXCEPT !.texture_faces = FacesAfter(@, line)]
            /\ i' = i + 1
            /\ UNCHANGED <<pc, error>>
    /\ UNCHANGED <<content, lines, current_section>>
    /\ UNCHANGED <<writerVars, data, encoding, uvVars, exportVars>>

\* no branch taken: current_section == ''
InertLine ==
    /\ AtDataLine /\ current_section = ""
    /\ i' = i + 1
    /\ UNCHANGED <<pc, content, lines, current_section, mesh>>
    /\ UNCHANGED notParser

\* while i < len(lines) is false: return mesh
ParseReturn ==
    /\ pc = "loop" /\ i >= Len(lines)
    /\ pc' = "parsed"
    /\ UNCHANGED parserVars
    /\ UNCHANGED notParser

(***************************************************************************)
(* The decoder on its own: every text of at most MaxLines raw lines.       *)
(***************************************************************************)
MaxLines == 4

\* the variables of the parts a specification does not run
IdleParser ==
    content = <<>> /\ lines = <<>> /\ i = 0 /\ current_section = "" /\ mesh = DMDMesh

IdleWriter == dmd_mesh = DMDMesh /\ files = <<>>

IdleFile == data = <<>> /\ encoding = "" /\ error = ""

IdleUV ==
    /\ mesh_vertices = <<>> /\ polygons = <<>> /\ uv_layers = FALSE
    /\ flip_y = FALSE /\ flip_z = FALSE /\ flip_faces = FALSE /\ export_uv = FALSE
    /\ poly = 0 /\ uv_dict = {} /\ uv_list = <<>>

\* context.active_object is None
NoObject == [type |-> "", name |-> <<>>, raises |-> FALSE, dmd |-> DMDMesh]

IdleExport ==
    /\ export_mode = "" /\ active_object = NoObject
    /\ objects = <<>> /\ mesh_objects = <<>> /\ obj = 0
    /\ combined_mesh = DMDMesh /\ vertex_offset = 0 /\ uv_offset = 0
    /\ exported_count = 0 /\ reports = <<>> /\ result = ""

\* a name line; as a data line it has two numeric tokens, too few for
\* every section but texture_vertices
NameLine == <<"O", "b", "j", "1", " ", "2", "(", ")">>

\* a closing line in upper case that carries three numeric tokens
EndLine == <<"E", "N", "D", " ", "7", " ", "8", " ", "9">>

\* the line write_file opens the texture block with
NewTextureLine == NewTexture

\* a data line with four numeric tokens, after a form feed and a tab and
\* before a no-break space; its 5 is the Arabic-Indic digit
DataLine ==
    <<CharOf(12), "\t", "1", ".", CharOf(1637), " ", "-", "2", " ", "3", "e", "1", " ", "4",
      CharOf(160)>>

\* a data line with one numeric token, too few for every section; it has
\* two integer tokens
ShortLine == <<"0", ".", "5">>

\* a line of a blank and a vertical tab
BlankLine == <<" ", CharOf(11)>>

RawLines ==
    {NewObjectMarker, NameLine, MeshVerticesHeader, MeshFacesHeader,
     TextureVerticesHeader, TextureFacesHeader, EndLine, NewTextureLine,
     DataLine, ShortLine, BlankLine}

RECURSIVE SeqsUpTo(_, _)
SeqsUpTo(S, n) ==
    IF n = 0 THEN {<<>>}
    ELSE LET shorter == SeqsUpTo(S, n - 1)
         IN  shorter \cup {Append(s, x) : s \in {t \in shorter : Len(t) = n - 1}, x \in S}

InitParse ==
    /\ pc = "parse_content"
    /\ content \in {FileText(raw) : raw \in SeqsUpTo(RawLines, MaxLines)}
    /\ lines = <<>>
    /\ i = 0
    /\ current_section = ""
    /\ mesh = DMDMesh
    /\ IdleWriter /\ IdleFile /\ IdleUV /\ IdleExport

NextParse ==
    \/ ParseBegin
    \/ NewObject
    \/ SectionHeader
    \/ SectionEnd
    \/ VertexLine
    \/ FaceLine
    \/ TextureVertexLine
    \/ TextureFaceLine
    \/ InertLine
    \/ ParseReturn

SpecParse == InitParse /\ [][NextParse]_vars

(***************************************************************************)
(* Claims about the decoder, checked under SpecParse.                      *)
(***************************************************************************)
\* the loop is at a line that begins with 'New object'
AtNewObject == pc = "loop" /\ i < Len(lines) /\ StartsWith(line, NewObjectMarker)

\* the four data lists of a mesh
MeshData(m) == <<m.vertices, m.faces, m.texture_vertices, m.texture_faces>>

\* C1: after a line beginning with "New object" has been processed the
\* section state is None, whatever it was before, so that a data line after
\* the name line is recorded nowhere.
C1_NewObjectResetsSection ==
    [][AtNewObject => current_section' = ""]_vars

\* the line contains "end" or "new" in any case
HasEndOrNew(ln) ==
    \/ Contains(Lower(ln), <<"e", "n", "d">>)
    \/ Contains(Lower(ln), <<"n", "e", "w">>)

\* C2: a line that is no 'New object' line, no name line and no exact
\* section header but contains "end" or "new" in any case resets the section
\* state to None from every state and is never recorded as data; from then
\* on no line is recorded until an exact section header is read.
C2_EndOrNewClosesSection ==
    [][/\ (/\ pc = "loop" /\ i < Len(lines)
           /\ ~StartsWith(line, NewObjectMarker)
           /\ line \notin {MeshVerticesHeader, MeshFacesHeader,
                           TextureVerticesHeader, TextureFacesHeader}
           /\ HasEndOrNew(line))
          => (current_section' = "" /\ MeshData(mesh') = MeshData(mesh))
       /\ (pc = "loop" /\ i < Len(lines) /\ current_section = "")
          => /\ MeshData(mesh') = MeshData(mesh)
             /\ current_section' # ""
                => line \in {MeshVerticesHeader, MeshFacesHeader,
                             TextureVerticesHeader, TextureFacesHeader}
      ]_vars

\* C2's case: in the faces section a closing line with three numeric tokens
\* was read, then a data line; nothing was recorded.
C2_Witness ==
    /\ pc = "parsed"
    /\ lines = <<MeshFacesHeader, EndLine, Strip(DataLine)>>
    /\ current_section = ""
    /\ mesh.faces = <<>>

IsFloat(x) ==
    /\ x.k \in {"fin", "inf"} /\ x.neg \in BOOLEAN /\ x.exp \in Int
    /\ \A j \in DOMAIN x.man : x.man[j] \in 0..(LimbBase - 1)

\* every recorded element has its full arity
MeshShape(m) ==
    /\ \A k \in DOMAIN m.vertices :
           DOMAIN m.vertices[k] = 1..3 /\ \A c \in 1..3 : IsFloat(m.vertices[k][c])
    /\ \A k \in DOMAIN m.texture_vertices :
           DOMAIN m.texture_vertices[k] = 1..2
           /\ \A c \in 1..2 : IsFloat(m.texture_vertices[k][c])
    /\ \A k \in DOMAIN m.faces :
           DOMAIN m.faces[k] = 1..3 /\ \A c \in 1..3 : m.faces[k][c] \in Int
    /\ \A k \in DOMAIN m.texture_faces :
           DOMAIN m.texture_faces[k] = 1..3
           /\ \A c \in 1..3 : m.texture_faces[k][c] \in Int

\* what a data line adds: nothing when it has too few tokens, else the
\* first three tokens (two for a texture vertex), indices reduced by one
DataLineRecords ==
    LET nums == FindNumbers(line)
        ints == FindIntegers(line)
        tri  == <<IntOf(ints[1]) - 1, IntOf(ints[2]) - 1, IntOf(ints[3]) - 1>>
    IN  /\ current_section' = current_section
        /\ mesh'.object_name = mesh.object_name
        /\ MeshData(mesh') =
             CASE current_section = "vertices" ->
                    <<IF Len(nums) < 3 THEN mesh.vertices
                      ELSE Append(mesh.vertices,
                                  <<FloatOf(nums[1]), FloatOf(nums[2]), FloatOf(nums[3])>>),
                      mesh.faces, mesh.texture_vertices, mesh.texture_faces>>
               [] current_section = "faces" ->
                    <<mesh.vertices,
                      IF Len(ints) < 3 THEN mesh.faces ELSE Append(mesh.faces, tri),
                      mesh.texture_vertices, mesh.texture_faces>>
               [] current_section = "texture_vertices" ->
                    <<mesh.vertices, mesh.faces,
                      IF Len(nums) < 2 THEN mesh.texture_vertices
                      ELSE Append(mesh.texture_vertices,
                                  <<FloatOf(nums[1]), FloatOf(nums[2])>>),
                      mesh.texture_faces>>
               [] current_section = "texture_faces" ->
                    <<mesh.vertices, mesh.faces, mesh.texture_vertices,
                      IF Len(ints) < 3 THEN mesh.texture_faces
                      ELSE Append(mesh.texture_faces, tri)>>
               [] OTHER -> MeshData(mesh)

\* C10: every element of vertices is a 3-tuple, of texture_vertices a
\* 2-tuple, of faces and texture_faces a 3-tuple of integers; a data line
\* with too few tokens appends nothing and leaves the state unchanged, and a
\* longer one records exactly its first 3 (2) tokens, indices minus one.
\* It holds under SpecParse and fails under SpecFile, where a data line of
\* the faces section has an index longer than int() accepts.
C10_TuplesComplete ==
    /\ []MeshShape(mesh)
    /\ [][AtDataLine => DataLineRecords]_vars

\* the cases of C10 that SpecParse has: in the faces section a two-token
\* line was skipped and a line with more than three tokens gave one face
\* from its first three
FaceLinesRecorded ==
    /\ pc = "parsed"
    /\ lines = <<MeshFacesHeader, NameLine, Strip(DataLine)>>
    /\ mesh.faces = <<<<0, 4, 1>>>>

\* in the texture_vertices section a one-token line was skipped and a
\* two-token line gave a texture vertex
TextureVertexLinesRecorded ==
    /\ pc = "parsed"
    /\ lines = <<TextureVerticesHeader, ShortLine, NameLine>>
    /\ Len(mesh.texture_vertices) = 1

(***************************************************************************)
(* Encode, then decode: write_file followed by parse_file on its output.   *)
(***************************************************************************)
\* self.filepath
FilePath == <<"s", "c", "e", "n", "e", ".", "d", "m", "d">>

\* the characters UTF-8 encodes in one byte
AsciiChars == {CharOf(cp) : cp \in 0..127}

\* c.encode('utf-8'): the bytes of the character c
Utf8Encode(c) ==
    LET cp == CHOOSE n \in 0..1114111 : CharOf(n) = c
    IN  IF cp < 128 THEN <<cp>>
        ELSE IF cp < 2048 THEN <<192 + (cp \div 64), 128 + (cp % 64)>>
        ELSE IF cp < 65536
             THEN <<224 + (cp \div 4096), 128 + ((cp \div 64) % 64), 128 + (cp % 64)>>
        ELSE <<240 + (cp \div 262144), 128 + ((cp \div 4096) % 64),
               128 + ((cp \div 64) % 64), 128 + (cp % 64)>>

\* the files after open(path, 'w') and the writes that reached the file: a
\* file that was at the path is replaced.  The file holds the characters of
\* text and then the bytes of tail, the part of one more character
FilesAfter(fs, path, text, tail) ==
    SelectSeq(fs, LAMBDA f : f.path # path)
        \o <<[path |-> path, text |-> text, tail |-> tail]>>

\* write_file(m, path): the file is written whole
WriteFile(m, path) == files' = FilesAfter(files, path, FileText(FileLines(m)), <<>>)

\* write_file(m, path) raises: open() fails and no file changes, or a write
\* or the close fails and the file holds the bytes that reached it before,
\* any number of the bytes of the text: n whole characters and, unless the
\* next character is one byte, some of the bytes of the next
WriteFileFails(m, path) ==
    \/ UNCHANGED files
    \/ \E text \in {FileText(FileLines(m))} : \E n \in 0..Len(text) :
           \E tail \in IF n = Len(text) \/ text[n + 1] \in AsciiChars THEN {<<>>}
                        ELSE {SubSeq(Utf8Encode(text[n + 1]), 1, k) :
                                  k \in 0..(Len(Utf8Encode(text[n + 1])) - 1)} :
               files' = FilesAfter(files, path, SubSeq(text, 1, n), tail)

\* DMDParser.write_file(dmd_mesh, self.filepath)
WriteMesh ==
    /\ pc = "write_file"
    /\ WriteFile(dmd_mesh, FilePath)
    /\ pc' = "written"
    /\ UNCHANGED <<dmd_mesh, parserVars, fileVars, uvVars, exportVars>>

\* parse_file on the file just written: it is UTF-8, the first read succeeds
ReadWritten ==
    /\ pc = "written"
    /\ content' = UniversalNewlines(files[Len(files)].text)
    /\ pc' = "parse_content"
    /\ UNCHANGED <<lines, i, current_section, mesh, notParser>>

\* the most vertices a sample mesh has
MaxVertices == 2

\* 1.5 -2 30; 0.1234567 -0.0000001 0; inf 0 1 (what "1e999 0 1" decodes to);
\* 0.0000025 0.0000035 -0.1000005, doubles that are not halfway between two
\* decimals of six places although their shortest decimals are
VertexSamples ==
    {<<Fin(FALSE, 15000000), Fin(TRUE, 20000000), Fin(FALSE, 300000000)>>,
     <<Fin(FALSE, 1234567), Fin(TRUE, 1), Fin(FALSE, 0)>>,
     <<Inf(FALSE), Fin(FALSE, 0), Fin(FALSE, 10000000)>>,
     <<Fin(FALSE, 25), Fin(FALSE, 35), Fin(TRUE, 1000005)>>}

\* an index of -1 is what the text "0" decodes to
FaceLists ==
    {<<>>, <<<<0, 1, 2>>>>, <<<<0, 1, 2>>, <<0 - 1, 99999, 1234567>>>>}

\* 0.5 0.2500004
TextureVertexLists ==
    {<<>>, <<<<Fin(FALSE, 5000000), Fin(FALSE, 2500004)>>>>,
     <<<<Fin(FALSE, 5000000), Fin(FALSE, 2500004)>>, <<Fin(FALSE, 0), Fin(TRUE, 10000000)>>>>}

TextureFaceLists == {<<>>, <<<<1, 1, 0>>>>}

\* Cube; a name that reads as a section header; a name with a carriage
\* return in it
NameSamples ==
    {<<"C", "u", "b", "e">>, MeshVerticesHeader, <<"C", "u", "\r", "b", "e">>}

MeshSamples ==
    [vertices : SeqsUpTo(VertexSamples, MaxVertices),
     faces : FaceLists,
     texture_vertices : TextureVertexLists,
     texture_faces : TextureFaceLists,
     object_name : NameSamples]

InitRoundTrip ==
    /\ pc = "write_file"
    /\ dmd_mesh \in MeshSamples
    /\ files = <<>>
    /\ IdleParser /\ IdleFile /\ IdleUV /\ IdleExport

NextRoundTrip ==
    \/ WriteMesh
    \/ ReadWritten
    \/ NextParse

SpecRoundTrip == InitRoundTrip /\ [][NextRoundTrip]_vars

(***************************************************************************)
(* Claims about the encoder, checked under SpecRoundTrip.                  *)
(***************************************************************************)
\* C6: decoding the text that encoding a mesh produced gives as many
\* vertices and as many faces, the coordinates at the serialized precision
\* and the same face index triples.
C6_RoundTrip ==
    pc = "parsed" =>
        /\ Len(mesh.vertices) = Len(dmd_mesh.vertices)
        /\ Len(mesh.faces) = Len(dmd_mesh.faces)
        /\ \A k \in DOMAIN mesh.vertices \cap DOMAIN dmd_mesh.vertices : \A c \in 1..3 :
               FloatEq(mesh.vertices[k][c], Round6(dmd_mesh.vertices[k][c]))
        /\ mesh.faces = dmd_mesh.faces

\* the lines of the text
TextLines(text) == LET ls == Split(text) IN SubSeq(ls, 1, Len(ls) - 1)

\* the positions of the lines of ls that read s
LinesAt(ls, s) == {k \in DOMAIN ls : ls[k] = s}

\* C9: write_file emits the object header, the "Mesh vertices:" block,
\* "end vertices", the "Mesh faces:" block, "end faces", "end mesh", then a
\* full texture block if and only if texture_vertices is non-empty, then
\* "end of file": no texture line at all for a mesh with UV faces but no UV
\* vertices, and an empty face list for one with UV vertices but no UV faces.
C9_SectionOrder ==
    files # <<>> =>
        LET nv   == Len(dmd_mesh.vertices)
            nf   == Len(dmd_mesh.faces)
            ntv  == Len(dmd_mesh.texture_vertices)
            ntf  == Len(dmd_mesh.texture_faces)
            base == 9 + nv + nf
            Written == TextLines(files[1].text)
        IN  /\ Written[1] = NewObjectMarker
            /\ LinesAt(Written, MeshVerticesHeader) = {5}
            /\ LinesAt(Written, EndVertices) = {6 + nv}
            /\ LinesAt(Written, MeshFacesHeader) = {7 + nv}
            /\ LinesAt(Written, EndFaces) = {8 + nv + nf}
            /\ LinesAt(Written, EndMesh) = {base}
            /\ LinesAt(Written, EndOfFile) = {Len(Written)}
            /\ IF ntv > 0
               THEN /\ LinesAt(Written, NewTexture) = {base + 1}
                    /\ LinesAt(Written, TextureVerticesHeader) = {base + 4}
                    /\ LinesAt(Written, EndTextureVertices) = {base + 5 + ntv}
                    /\ LinesAt(Written, TextureFacesHeader) = {base + 6 + ntv}
                    /\ LinesAt(Written, EndTextureFaces) = {base + 7 + ntv + ntf}
                    /\ LinesAt(Written, EndOfTexture) = {base + 8 + ntv + ntf}
                    /\ Len(Written) = base + 9 + ntv + ntf
               ELSE /\ \A s \in {NewTexture, TextureVerticesHeader, EndTextureVertices,
                                 TextureFacesHeader, EndTextureFaces, EndOfTexture} :
                           LinesAt(Written, s) = {}
                    /\ Len(Written) = base + 1

\* C9's case: a mesh with UV faces but no UV vertices has been written.
C9_Witness ==
    /\ files # <<>>
    /\ dmd_mesh.texture_vertices = <<>>
    /\ dmd_mesh.texture_faces # <<>>

(***************************************************************************)
(* ExportDMD.execute: export_single_object, export_multiple_objects and    *)
(* export_combined_objects.  What object_to_dmd_mesh does with an object   *)
(* is given with the object: the DMDMesh it returns, or that it raises.    *)
(***************************************************************************)
CombinedScene == <<"C", "o", "m", "b", "i", "n", "e", "d", "_", "S", "c", "e", "n", "e">>

DmdExt == <<".", "d", "m", "d">>

\* path.rfind(c) + 1: the last position of c in path, or 0
LastIndexOf(path, c) ==
    LET hits == {k \in DOMAIN path : path[k] = c}
    IN  IF hits = {} THEN 0 ELSE CHOOSE k \in hits : \A j \in hits : j <= k

\* os.path.splitext(path)[0] of posixpath: the path up to the last dot of
\* its file name, unless only dots of the file name come before that dot
BasePath(path) ==
    LET sepIndex == LastIndexOf(path, "/")
        dotIndex == LastIndexOf(path, ".")
    IN  IF dotIndex > sepIndex /\ \E k \in (sepIndex + 1)..(dotIndex - 1) : path[k] # "."
        THEN SubSeq(path, 1, dotIndex - 1)
        ELSE path

\* f"{base_path}_{obj.name}.dmd"
ObjectPath(o) == BasePath(FilePath) \o <<"_">> \o o.name \o DmdExt

\* [obj for obj in objects if obj.type == 'MESH']
IsMesh(o) == o.type = "MESH"

\* the face with every index shifted
ShiftFace(face, offset) == <<face[1] + offset, face[2] + offset, face[3] + offset>>

\* uv_offset advanced by the vertex count
UVOffsetAfter_ByVertices(uo, d) ==
    IF d.texture_vertices # <<>> THEN uo + Len(d.vertices) ELSE uo

\* uv_offset after the mesh is merged
UVOffsetAfter(uo, d) ==
    IF d.texture_vertices # <<>> THEN uo + Len(d.texture_vertices) ELSE uo

\* vertex_offset advanced by the face count
VertexOffsetAfter_ByFaces(vo, d) == vo + Len(d.faces)

\* vertex_offset after the mesh is merged
VertexOffsetAfter(vo, d) == vo + Len(d.vertices)

\* combined_mesh after the mesh d is merged at the offsets vo, uo
CombinedAfter(cm, vo, uo, d) ==
    [cm EXCEPT
       !.vertices = @ \o d.vertices,
       !.faces = @ \o [k \in 1..Len(d.faces) |-> ShiftFace(d.faces[k], vo)],
       !.texture_vertices =
           IF d.texture_vertices # <<>> THEN @ \o d.texture_vertices ELSE @,
       !.texture_faces =
           IF d.texture_vertices # <<>>
           THEN @ \o [k \in 1..Len(d.texture_faces) |-> ShiftFace(d.texture_faces[k], uo)]
           ELSE @]

\* self.report({level}, ...) with the count the message carries
Report(level, count) == reports' = Append(reports, [level |-> level, count |-> count])

\* the object the export loop is at
CurrentObject == mesh_objects[obj + 1]

\* export_mode is one of the modes that write a file per object
Separate == export_mode \in {"SELECTED", "ALL_MESH"}

\* export_single_object: if not obj or obj.type != 'MESH': ERROR, CANCELLED
NoActiveMesh ==
    /\ pc = "export" /\ export_mode = "ACTIVE"
    /\ active_object = NoObject \/ ~IsMesh(active_object)
    /\ Report("ERROR", 0)
    /\ result' = "CANCELLED"
    /\ pc' = "returned"
    /\ UNCHANGED <<export_mode, active_object, objects, mesh_objects, obj, combined_mesh,
                   vertex_offset, uv_offset, exported_count>>
    /\ UNCHANGED <<parserVars, writerVars, fileVars, uvVars>>

\* export_single_object: the object is converted and written to
\* self.filepath; report INFO with the number of vertices, return FINISHED
ExportSingle ==
    /\ pc = "export" /\ export_mode = "ACTIVE"
    /\ active_object # NoObject /\ IsMesh(active_object)
    /\ ~active_object.raises
    /\ dmd_mesh' = active_object.dmd
    /\ WriteFile(active_object.dmd, FilePath)
    /\ Report("INFO", Len(active_object.dmd.vertices))
    /\ result' = "FINISHED"
    /\ pc' = "returned"
    /\ UNCHANGED <<export_mode, active_object, objects, mesh_objects, obj, combined_mesh,
                   vertex_offset, uv_offset, exported_count>>
    /\ UNCHANGED <<parserVars, fileVars, uvVars>>

\* export_single_object: object_to_dmd_mesh raises; execute() reports
\* ERROR and returns CANCELLED
ExportSingleFails ==
    /\ pc = "export" /\ export_mode = "ACTIVE"
    /\ active_object # NoObject /\ IsMesh(active_object)
    /\ active_object.raises
    /\ Report("ERROR", 0)
    /\ result' = "CANCELLED"
    /\ pc' = "returned"
    /\ UNCHANGED <<export_mode, active_object, objects, mesh_objects, obj, combined_mesh,
                   vertex_offset, uv_offset, exported_count>>
    /\ UNCHANGED <<parserVars, writerVars, fileVars, uvVars>>

\* export_single_object: write_file raises; execute() reports ERROR and
\* returns CANCELLED
ExportSingleWriteFails ==
    /\ pc = "export" /\ export_mode = "ACTIVE"
    /\ active_object # NoObject /\ IsMesh(active_object)
    /\ ~active_object.raises
    /\ dmd_mesh' = active_object.dmd
    /\ WriteFileFails(active_object.dmd, FilePath)
    /\ Report("ERROR", 0)
    /\ result' = "CANCELLED"
    /\ pc' = "returned"
    /\ UNCHANGED <<export_mode, active_object, objects, mesh_objects, obj, combined_mesh,
                   vertex_offset, uv_offset, exported_count>>
    /\ UNCHANGED <<parserVars, fileVars, uvVars>>

\* if not mesh_objects: report ERROR, return CANCELLED
NoMeshObjects ==
    /\ pc = "export" /\ export_mode # "ACTIVE"
    /\ SelectSeq(objects, IsMesh) = <<>>
    /\ mesh_objects' = <<>>
    /\ Report("ERROR", 0)
    /\ result' = "CANCELLED"
    /\ pc' = "returned"
    /\ UNCHANGED <<export_mode, active_object, objects, obj, combined_mesh, vertex_offset, uv_offset,
                   exported_count>>
    /\ UNCHANGED <<parserVars, writerVars, fileVars, uvVars>>

\* mesh_objects = [...]; the locals before the loop
ExportBegin ==
    /\ pc = "export" /\ export_mode # "ACTIVE"
    /\ SelectSeq(objects, IsMesh) # <<>>
    /\ mesh_objects' = SelectSeq(objects, IsMesh)
    /\ combined_mesh' = IF export_mode = "COMBINED"
                        THEN [DMDMesh EXCEPT !.object_name = CombinedScene]
                        ELSE combined_mesh
    /\ vertex_offset' = 0
    /\ uv_offset' = 0
    /\ exported_count' = 0
    /\ obj' = 0
    /\ pc' = "export_loop"
    /\ UNCHANGED <<export_mode, active_object, objects, reports, result>>
    /\ UNCHANGED <<parserVars, writerVars, fileVars, uvVars>>

\* export_multiple_objects: the object is converted and written
ExportObject ==
    /\ pc = "export_loop" /\ Separate /\ obj < Len(mesh_objects)
    /\ ~CurrentObject.raises
    /\ dmd_mesh' = CurrentObject.dmd
    /\ WriteFile(CurrentObject.dmd, ObjectPath(CurrentObject))
    /\ exported_count' = exported_count + 1
    /\ obj' = obj + 1
    /\ UNCHANGED <<pc, export_mode, active_object, objects, mesh_objects, combined_mesh, vertex_offset,
                   uv_offset, reports, result>>
    /\ UNCHANGED <<parserVars, fileVars, uvVars>>

\* export_multiple_objects: object_to_dmd_mesh raises; except: WARNING
ExportObjectFails ==
    /\ pc = "export_loop" /\ Separate /\ obj < Len(mesh_objects)
    /\ CurrentObject.raises
    /\ Report("WARNING", obj)
    /\ obj' = obj + 1
    /\ UNCHANGED <<pc, export_mode, active_object, objects, mesh_objects, combined_mesh, vertex_offset,
                   uv_offset, exported_count, result>>
    /\ UNCHANGED <<parserVars, writerVars, fileVars, uvVars>>

\* export_multiple_objects: write_file raises (the sink cannot be written);
\* except: WARNING
ExportObjectWriteFails ==
    /\ pc = "export_loop" /\ Separate /\ obj < Len(mesh_objects)
    /\ ~CurrentObject.raises
    /\ dmd_mesh' = CurrentObject.dmd
    /\ WriteFileFails(CurrentObject.dmd, ObjectPath(CurrentObject))
    /\ Report("WARNING", obj)
    /\ obj' = obj + 1
    /\ UNCHANGED <<pc, export_mode, active_object, objects, mesh_objects, combined_mesh,
                   vertex_offset, uv_offset, exported_count, result>>
    /\ UNCHANGED <<parserVars, fileVars, uvVars>>

\* export_multiple_objects: after the loop, report INFO, return FINISHED
ExportMultipleReturn ==
    /\ pc = "export_loop" /\ Separate /\ obj >= Len(mesh_objects)
    /\ Report("INFO", exported_count)
    /\ result' = "FINISHED"
    /\ pc' = "returned"
    /\ UNCHANGED <<export_mode, active_object, objects, mesh_objects, obj, combined_mesh, vertex_offset,
                   uv_offset, exported_count>>
    /\ UNCHANGED <<parserVars, writerVars, fileVars, uvVars>>

\* export_combined_objects: the object is converted and merged
MergeObject ==
    /\ pc = "export_loop" /\ export_mode = "COMBINED" /\ obj < Len(mesh_objects)
    /\ ~CurrentObject.raises
    /\ dmd_mesh' = CurrentObject.dmd
    /\ combined_mesh' = CombinedAfter(combined_mesh, vertex_offset, uv_offset,
                                      CurrentObject.dmd)
    /\ uv_offset' = UVOffsetAfter(uv_offset, CurrentObject.dmd)
    /\ vertex_offset' = VertexOffsetAfter(vertex_offset, CurrentObject.dmd)
    /\ obj' = obj + 1
    /\ UNCHANGED <<pc, export_mode, active_object, objects, mesh_objects, exported_count, reports,
                   result, files>>
    /\ UNCHANGED <<parserVars, fileVars, uvVars>>

\* the exception leaves the loop and reaches execute(): ERROR, CANCELLED
SkipObject_Abort ==
    /\ pc = "export_loop" /\ export_mode = "COMBINED" /\ obj < Len(mesh_objects)
    /\ CurrentObject.raises
    /\ Report("ERROR", 0)
    /\ result' = "CANCELLED"
    /\ pc' = "returned"
    /\ UNCHANGED <<export_mode, active_object, objects, mesh_objects, obj, combined_mesh, vertex_offset,
                   uv_offset, exported_count>>
    /\ UNCHANGED <<parserVars, writerVars, fileVars, uvVars>>

\* export_combined_objects: object_to_dmd_mesh raises; except: WARNING
SkipObject ==
    /\ pc = "export_loop" /\ export_mode = "COMBINED" /\ obj < Len(mesh_objects)
    /\ CurrentObject.raises
    /\ Report("WARNING", obj)
    /\ obj' = obj + 1
    /\ UNCHANGED <<pc, export_mode, active_object, objects, mesh_objects, combined_mesh, vertex_offset,
                   uv_offset, exported_count, result>>
    /\ UNCHANGED <<parserVars, writerVars, fileVars, uvVars>>

\* export_combined_objects: write_file(combined_mesh), report INFO, FINISHED
WriteCombined ==
    /\ pc = "export_loop" /\ export_mode = "COMBINED" /\ obj >= Len(mesh_objects)
    /\ WriteFile(combined_mesh, FilePath)
    /\ Report("INFO", Len(mesh_objects))
    /\ result' = "FINISHED"
    /\ pc' = "returned"
    /\ UNCHANGED <<export_mode, active_object, objects, mesh_objects, obj, combined_mesh, vertex_offset,
                   uv_offset, exported_count, dmd_mesh>>
    /\ UNCHANGED <<parserVars, fileVars, uvVars>>

\* export_combined_objects: write_file raises; execute() reports ERROR and
\* returns CANCELLED
WriteCombinedFails ==
    /\ pc = "export_loop" /\ export_mode = "COMBINED" /\ obj >= Len(mesh_objects)
    /\ WriteFileFails(combined_mesh, FilePath)
    /\ Report("ERROR", 0)
    /\ result' = "CANCELLED"
    /\ pc' = "returned"
    /\ UNCHANGED <<export_mode, active_object, objects, mesh_objects, obj, combined_mesh,
                   vertex_offset, uv_offset, exported_count, dmd_mesh>>
    /\ UNCHANGED <<parserVars, fileVars, uvVars>>

\* the most objects given to an export
MaxObjects == 3

\* whole coordinates
Whole(n) == Fin(FALSE, n * Scale)

\* a triangle with UVs: 3 vertices, 2 UV vertices
TriangleObject ==
    [type |-> "MESH", name |-> <<"T", "r", "i">>, raises |-> FALSE,
     dmd |-> [vertices |-> <<<<Whole(0), Whole(0), Whole(0)>>,
                             <<Whole(1), Whole(0), Whole(0)>>,
                             <<Whole(0), Whole(1), Whole(0)>>>>,
              faces |-> <<<<0, 1, 2>>>>,
              texture_vertices |-> <<<<Whole(0), Whole(0)>>, <<Whole(1), Whole(1)>>>>,
              texture_faces |-> <<<<0, 1, 0>>>>,
              object_name |-> <<"T", "r", "i">>]]

\* a quad of two triangles without a UV layer: 4 vertices
QuadObject ==
    [type |-> "MESH", name |-> <<"Q", "u", "a", "d">>, raises |-> FALSE,
     dmd |-> [vertices |-> <<<<Whole(2), Whole(0), Whole(0)>>,
                             <<Whole(3), Whole(0), Whole(0)>>,
                             <<Whole(3), Whole(1), Whole(0)>>,
                             <<Whole(2), Whole(1), Whole(0)>>>>,
              faces |-> <<<<0, 1, 2>>, <<0, 2, 3>>>>,
              texture_vertices |-> <<>>,
              texture_faces |-> <<>>,
              object_name |-> <<"Q", "u", "a", "d">>]]

\* a mesh object whose conversion raises
BrokenObject ==
    [type |-> "MESH", name |-> <<"B", "a", "d">>, raises |-> TRUE, dmd |-> DMDMesh]

\* an object that is no mesh
LightObject ==
    [type |-> "LIGHT", name |-> <<"S", "u", "n">>, raises |-> TRUE, dmd |-> DMDMesh]

ObjectSamples == {TriangleObject, QuadObject, BrokenObject, LightObject}

\* the lists of objects for the modes that write a file per object, where
\* every write that fails leaves one of as many files as its text has
\* bytes: the lists of at most two objects, and two of three
SeparateSamples ==
    SeqsUpTo(ObjectSamples, 2)
        \cup {<<TriangleObject, BrokenObject, TriangleObject>>,
              <<BrokenObject, LightObject, QuadObject>>}

\* the operator is run in one of its four modes: on the active object,
\* which may be none, or on a list of objects
InitExport ==
    /\ pc = "export"
    /\ \/ /\ export_mode = "ACTIVE"
          /\ active_object \in ObjectSamples \cup {NoObject}
          /\ objects = <<>>
       \/ /\ export_mode \in {"SELECTED", "ALL_MESH"}
          /\ active_object = NoObject
          /\ objects \in SeparateSamples
       \/ /\ export_mode = "COMBINED"
          /\ active_object = NoObject
          /\ objects \in SeqsUpTo(ObjectSamples, MaxObjects)
    /\ mesh_objects = <<>> /\ obj = 0
    /\ combined_mesh = DMDMesh /\ vertex_offset = 0 /\ uv_offset = 0
    /\ exported_count = 0 /\ reports = <<>> /\ result = ""
    /\ IdleParser /\ IdleWriter /\ IdleFile /\ IdleUV

NextExport ==
    \/ NoActiveMesh
    \/ ExportSingle
    \/ ExportSingleFails
    \/ ExportSingleWriteFails
    \/ NoMeshObjects
    \/ ExportBegin
    \/ ExportObject
    \/ ExportObjectFails
    \/ ExportObjectWriteFails
    \/ ExportMultipleReturn
    \/ MergeObject
    \/ SkipObject
    \/ WriteCombined
    \/ WriteCombinedFails

SpecExport == InitExport /\ [][NextExport]_vars

(***************************************************************************)
(* Claims about the batch exports, checked under SpecExport.               *)
(***************************************************************************)
\* the meshes of the first n mesh objects whose conversion did not raise
RECURSIVE MergedMeshes(_)
MergedMeshes(n) ==
    IF n = 0 THEN <<>>
    ELSE IF mesh_objects[n].raises THEN MergedMeshes(n - 1)
    ELSE Append(MergedMeshes(n - 1), mesh_objects[n].dmd)

\* the sum of the first n numbers of ns
RECURSIVE SumFirst(_, _)
SumFirst(ns, n) == IF n = 0 THEN 0 ELSE SumFirst(ns, n - 1) + ns[n]

\* the export loop of export_combined_objects, at any of its iterations
InCombinedLoop == pc = "export_loop" /\ export_mode = "COMBINED"

\* C3: each face index f of the k-th merged mesh appears in the combined
\* mesh as f plus the vertex counts of the meshes merged before it, each
\* UV-face index u as u plus their UV-vertex counts; the UV offset is the sum
\* of the UV-vertex counts alone, the vertex offset the sum of the vertex
\* counts of all merged meshes, with or without UV data.
C3_OffsetLaw ==
    InCombinedLoop =>
        LET ms  == MergedMeshes(obj)
            nv  == [k \in DOMAIN ms |-> Len(ms[k].vertices)]
            nf  == [k \in DOMAIN ms |-> Len(ms[k].faces)]
            ntv == [k \in DOMAIN ms |-> Len(ms[k].texture_vertices)]
            ntf == [k \in DOMAIN ms |-> Len(ms[k].texture_faces)]
        IN  /\ vertex_offset = SumFirst(nv, Len(ms))
            /\ uv_offset = SumFirst(ntv, Len(ms))
            /\ Len(combined_mesh.faces) = SumFirst(nf, Len(ms))
            /\ Len(combined_mesh.texture_faces) = SumFirst(ntf, Len(ms))
            /\ \A k \in DOMAIN ms :
                 /\ \A j \in DOMAIN ms[k].faces : \A c \in 1..3 :
                        combined_mesh.faces[SumFirst(nf, k - 1) + j][c]
                            = ms[k].faces[j][c] + SumFirst(nv, k - 1)
                 /\ \A j \in DOMAIN ms[k].texture_faces : \A c \in 1..3 :
                        combined_mesh.texture_faces[SumFirst(ntf, k - 1) + j][c]
                            = ms[k].texture_faces[j][c] + SumFirst(ntv, k - 1)

\* C3's case: a triangle with 2 UV vertices, a quad without UVs and the
\* triangle again were merged: the last face is shifted by 7, its UV face
\* by 2.
C3_Witness ==
    /\ InCombinedLoop
    /\ mesh_objects = <<TriangleObject, QuadObject, TriangleObject>>
    /\ obj = 3
    /\ combined_mesh.faces[4] = <<7, 8, 9>>
    /\ combined_mesh.texture_faces[2] = <<2, 3, 2>>

\* the aggregation of a list of meshes none of which fails
RECURSIVE Aggregate(_)
Aggregate(ms) ==
    IF ms = <<>>
    THEN [mesh |-> [DMDMesh EXCEPT !.object_name = CombinedScene],
          vertex_offset |-> 0, uv_offset |-> 0]
    ELSE LET before == Aggregate(SubSeq(ms, 1, Len(ms) - 1))
             d      == ms[Len(ms)]
         IN  [mesh |-> CombinedAfter(before.mesh, before.vertex_offset,
                                     before.uv_offset, d),
              vertex_offset |-> VertexOffsetAfter(before.vertex_offset, d),
              uv_offset |-> UVOffsetAfter(before.uv_offset, d)]

\* C4: a mesh whose extraction fails does not abort the aggregation: it
\* adds nothing to the combined mesh and leaves both offsets unchanged, the
\* loop goes on with the next mesh, and the combined result is the
\* aggregation of the list without the failed meshes.
C4_FailedMeshSkipped ==
    /\ [][(InCombinedLoop /\ obj < Len(mesh_objects) /\ CurrentObject.raises)
          => /\ combined_mesh' = combined_mesh
             /\ vertex_offset' = vertex_offset
             /\ uv_offset' = uv_offset
             /\ obj' = obj + 1
             /\ pc' = "export_loop"]_vars
    /\ [](InCombinedLoop =>
             [mesh |-> combined_mesh, vertex_offset |-> vertex_offset,
              uv_offset |-> uv_offset] = Aggregate(MergedMeshes(obj)))

\* C4's case: the second of three meshes failed and the third was merged
\* after it.
C4_Witness ==
    /\ InCombinedLoop
    /\ mesh_objects = <<QuadObject, BrokenObject, TriangleObject>>
    /\ obj = 3
    /\ combined_mesh.faces = <<<<0, 1, 2>>, <<0, 2, 3>>, <<4, 5, 6>>>>

\* the items of the batch that completed without failure
Completed ==
    IF export_mode = "COMBINED" THEN Len(MergedMeshes(Len(mesh_objects)))
    ELSE Len(mesh_objects) - Cardinality({k \in DOMAIN reports : reports[k].level = "WARNING"})

\* C5: a batch export over objects some of which fail goes on with the
\* remaining ones and returns its status together with a count equal to the
\* number of items that completed without failure.
C5_CountOfCompleted ==
    (pc = "returned" /\ result = "FINISHED" /\ export_mode # "ACTIVE") =>
        /\ obj = Len(mesh_objects)
        /\ reports[Len(reports)].level = "INFO"
        /\ reports[Len(reports)].count = Completed

(***************************************************************************)
(* DMDParser.parse_file: the bytes of the file, the three codecs and the   *)
(* newline translation of a file opened in text mode.                      *)
(***************************************************************************)
\* ord(c) of an ASCII character
Ord(c) ==
    CASE c = "\t" -> 9
      [] c = "\n" -> 10
      [] c = "\r" -> 13
      [] OTHER -> 31 + CHOOSE k \in DOMAIN Printable : Printable[k] = c

\* text.encode('ascii')
BytesOf(text) == [k \in 1..Len(text) |-> Ord(text[k])]

\* a continuation byte 10xxxxxx
IsContinuation(b) == b \in 128..191

\* the length of the UTF-8 sequence that starts at p, or 0 when the bytes
\* there are not valid UTF-8
Utf8SeqLen(bs, p) ==
    LET b    == bs[p]
        n    == CASE b \in 0..127 -> 1
                  [] b \in 194..223 -> 2
                  [] b \in 224..239 -> 3
                  [] b \in 240..244 -> 4
                  [] OTHER -> 0
        low  == CASE b = 224 -> 160 [] b = 240 -> 144 [] OTHER -> 128
        high == CASE b = 237 -> 159 [] b = 244 -> 143 [] OTHER -> 191
    IN  IF n = 0 \/ p + n - 1 > Len(bs) THEN 0
        ELSE IF n = 1 THEN 1
        ELSE IF /\ bs[p + 1] \in low..high
                /\ \A k \in (p + 2)..(p + n - 1) : IsContinuation(bs[k])
             THEN n
        ELSE 0

\* the code point of the UTF-8 sequence of n bytes at p
Utf8CodePoint(bs, p, n) ==
    CASE n = 1 -> bs[p]
      [] n = 2 -> (bs[p] - 192) * 64 + (bs[p + 1] - 128)
      [] n = 3 -> ((bs[p] - 224) * 64 + (bs[p + 1] - 128)) * 64 + (bs[p + 2] - 128)
      [] n = 4 -> (((bs[p] - 240) * 64 + (bs[p + 1] - 128)) * 64 + (bs[p + 2] - 128)) * 64
                  + (bs[p + 3] - 128)

\* bytes.decode('utf-8') succeeds: every byte that is no continuation byte
\* starts a well-formed sequence, and every continuation byte belongs to
\* the sequence that starts at most three bytes before it
Utf8Valid(bs) ==
    LET WellPlaced(p) ==
            IF IsContinuation(bs[p])
            THEN \E q \in (p - 3)..(p - 1) :
                     /\ q >= 1
                     /\ ~IsContinuation(bs[q])
                     /\ Utf8SeqLen(bs, q) > p - q
            ELSE Utf8SeqLen(bs, p) > 0
    IN  {p \in 1..Len(bs) : ~WellPlaced(p)} = {}

\* bytes.decode('utf-8') of valid bytes: one character per sequence
Utf8Decode(bs) ==
    LET IsStart(p) == ~IsContinuation(bs[p])
        starts     == SelectSeq([p \in 1..Len(bs) |-> p], IsStart)
    IN  [j \in 1..Len(starts) |->
            CharOf(Utf8CodePoint(bs, starts[j], Utf8SeqLen(bs, starts[j])))]

\* the one byte value cp1251 leaves undefined
Cp1251Undefined == 152

\* the code points of the bytes 128..191 in cp1251 (0 for the undefined byte)
Cp1251High ==
    <<1026, 1027, 8218, 1107, 8222, 8230, 8224, 8225,
      8364, 8240, 1033, 8249, 1034, 1036, 1035, 1039,
      1106, 8216, 8217, 8220, 8221, 8226, 8211, 8212,
      0, 8482, 1113, 8250, 1114, 1116, 1115, 1119,
      160, 1038, 1118, 1032, 164, 1168, 166, 167,
      1025, 169, 1028, 171, 172, 173, 174, 1031,
      176, 177, 1030, 1110, 1169, 181, 182, 183,
      1105, 8470, 1108, 187, 1112, 1029, 1109, 1111>>

\* the code point of a byte in cp1251: ASCII, the table, and the Cyrillic
\* letters from U+0410 for the bytes from 192
Cp1251CodePoint(b) ==
    IF b < 128 THEN b
    ELSE IF b < 192 THEN Cp1251High[b - 127]
    ELSE 1040 + (b - 192)

\* the bytes decode in the encoding
Decodable(enc, bs) ==
    CASE enc = "utf-8" -> Utf8Valid(bs)
      [] enc = "cp1251" -> {k \in DOMAIN bs : bs[k] = Cp1251Undefined} = {}
      [] enc = "latin-1" -> TRUE

\* bytes.decode(enc), of bytes that decode
Decode(enc, bs) ==
    CASE enc = "utf-8" -> Utf8Decode(bs)
      [] enc = "cp1251" -> [k \in DOMAIN bs |-> CharOf(Cp1251CodePoint(bs[k]))]
      [] enc = "latin-1" -> [k \in DOMAIN bs |-> CharOf(bs[k])]

\* open(filepath, 'r', encoding=enc).read()
ReadText(enc, bs) == UniversalNewlines(Decode(enc, bs))

\* raise ValueError: the file could not be read with the supported encodings
UnreadableFileError == "ValueError: unreadable with the supported encodings"

\* for encoding in ['cp1251', 'latin-1']
Fallbacks == <<"cp1251", "latin-1">>

\* the position of the encoding in the fallback list
FallbackIndex(enc) == CHOOSE k \in DOMAIN Fallbacks : Fallbacks[k] = enc

\* try: open(filepath, 'r', encoding='utf-8').read() succeeds
TryUtf8 ==
    /\ pc = "parse_file"
    /\ Decodable("utf-8", data)
    /\ encoding' = "utf-8"
    /\ content' = ReadText("utf-8", data)
    /\ pc' = "parse_content"
    /\ UNCHANGED <<data, error, lines, i, current_section, mesh>>
    /\ UNCHANGED <<writerVars, uvVars, exportVars>>

\* except UnicodeDecodeError: enter the loop over the other encodings
Utf8Fails ==
    /\ pc = "parse_file"
    /\ ~Decodable("utf-8", data)
    /\ encoding' = Fallbacks[1]
    /\ pc' = "fallback"
    /\ UNCHANGED <<data, error, parserVars>>
    /\ UNCHANGED <<writerVars, uvVars, exportVars>>

\* the read in the loop succeeds: break
TryFallback ==
    /\ pc = "fallback"
    /\ Decodable(encoding, data)
    /\ content' = ReadText(encoding, data)
    /\ pc' = "parse_content"
    /\ UNCHANGED <<data, encoding, error, lines, i, current_section, mesh>>
    /\ UNCHANGED <<writerVars, uvVars, exportVars>>

\* except UnicodeDecodeError: continue; the loop's else: raise ValueError
FallbackFails ==
    /\ pc = "fallback"
    /\ ~Decodable(encoding, data)
    /\ IF FallbackIndex(encoding) < Len(Fallbacks)
       THEN /\ encoding' = Fallbacks[FallbackIndex(encoding) + 1]
            /\ UNCHANGED <<pc, error>>
       ELSE /\ error' = UnreadableFileError
            /\ pc' = "raised"
            /\ UNCHANGED encoding
    /\ UNCHANGED <<data, parserVars>>
    /\ UNCHANGED <<writerVars, uvVars, exportVars>>

\* the most chunks of bytes a sample file is made of
MaxChunks == 2

\* a data line that ends "\r\n"
CrLfLine == <<"1", " ", "2", " ", "3", "\r", "\n">>

\* a closing line that ends "\r"
CrEndLine == <<"e", "n", "d", "\r">>

\* an index of n digits: zeros and a final 1
LongIndex(n) == [k \in 1..n |-> IF k = n THEN "1" ELSE "0"]

\* a data line whose first index has as many digits as int() accepts
AtLimitLine == LongIndex(IntMaxStrDigits) \o <<" ", "2", " ", "3", "\n">>

\* a data line whose first index has one digit more
OverLimitLine == LongIndex(IntMaxStrDigits + 1) \o <<" ", "2", " ", "3", "\n">>

\* a data line of four tokens whose first index has one digit more
OverLimitFourLine == LongIndex(IntMaxStrDigits + 1) \o <<" ", "2", " ", "3", " ", "4", "\n">>

\* a data line whose fourth integer token, which is not converted, has one
\* digit more
FourthLongLine == <<"1", " ", "2", " ", "3", " ">> \o LongIndex(IntMaxStrDigits + 1) \o <<"\n">>

\* lines in ASCII; the two bytes of U+00E9 in UTF-8, read as two letters
\* by the other codecs; its first byte alone, which is not UTF-8; the byte
\* cp1251 leaves undefined, which is UTF-8 only after a lead byte
ByteChunks ==
    {BytesOf(NewObjectMarker \o <<"\n">>), BytesOf(MeshVerticesHeader \o <<"\n">>),
     BytesOf(MeshFacesHeader \o <<"\n">>), BytesOf(TextureVerticesHeader \o <<"\n">>),
     BytesOf(TextureFacesHeader \o <<"\n">>), BytesOf(CrLfLine), BytesOf(CrEndLine),
     BytesOf(AtLimitLine), BytesOf(OverLimitLine), BytesOf(OverLimitFourLine),
     BytesOf(FourthLongLine),
     <<195, 169>>, <<195>>, <<152>>}

InitFile ==
    /\ pc = "parse_file"
    /\ data \in {Concat(chunks) : chunks \in SeqsUpTo(ByteChunks, MaxChunks)}
    /\ encoding = "" /\ error = ""
    /\ IdleParser /\ IdleWriter /\ IdleUV /\ IdleExport

NextFile ==
    \/ TryUtf8
    \/ Utf8Fails
    \/ TryFallback
    \/ FallbackFails
    \/ NextParse

SpecFile == InitFile /\ [][NextFile]_vars

(***************************************************************************)
(* Claims about parse_file, checked under SpecFile.                        *)
(***************************************************************************)
\* the encodings in the order the claim gives them
EncodingOrder == <<"utf-8", "cp1251", "latin-1">>

\* one of the three encodings decodes the bytes
SomeEncodingDecodes == \E k \in DOMAIN EncodingOrder : Decodable(EncodingOrder[k], data)

\* the text has been read and handed to _parse_content
Decoded == pc \in {"parse_content", "loop", "parsed"} \/ error = IntegerLimitError

\* C7: parse_file tries utf-8, cp1251, latin-1 in that order and parses
\* the text of the first of them that decodes the bytes; it raises the
\* unreadable-file error if and only if none of the three decodes them, and
\* no other error.
C7_FirstEncodingThatDecodes ==
    /\ Decoded =>
         \E k \in DOMAIN EncodingOrder :
             /\ encoding = EncodingOrder[k]
             /\ Decodable(EncodingOrder[k], data)
             /\ \A j \in 1..(k - 1) : ~Decodable(EncodingOrder[j], data)
             /\ content = ReadText(EncodingOrder[k], data)
    /\ pc = "parsed" => lines = ContentLines(content)
    /\ error \in {"", UnreadableFileError}
    /\ (pc \in {"parsed", "raised"}) => (error = UnreadableFileError <=> ~SomeEncodingDecodes)

(***************************************************************************)
(* ExportDMD.object_to_dmd_mesh: the vertices, the triangles and the UV    *)
(* coordinates of the evaluated mesh, one action per polygon of the UV     *)
(* loop.                                                                   *)
(***************************************************************************)
\* len(poly.vertices) == 3
IsTriangle(p) == Len(p.vertices) = 3

\* y = -y if flip_y, z = -z if flip_z
FlipVertex(v, fy, fz) ==
    <<v[1], IF fy THEN Neg(v[2]) ELSE v[2], IF fz THEN Neg(v[3]) ELSE v[3]>>

\* the loop over mesh.vertices
ExportedVertices(vs, fy, fz) == [k \in 1..Len(vs) |-> FlipVertex(vs[k], fy, fz)]

\* [face[2], face[1], face[0]]
Reversed(t) == <<t[3], t[2], t[1]>>

\* the loop over mesh.polygons that fills dmd_mesh.faces
ExportedFaces(ps, flip) ==
    LET tris == SelectSeq(ps, IsTriangle)
    IN  [k \in 1..Len(tris) |->
            IF flip THEN Reversed(tris[k].vertices) ELSE tris[k].vertices]

\* uv_coord = (uv[0], 1.0 - uv[1])
uv_coord(uv) == <<uv[1], OneMinus(uv[2])>>

\* the key without round()
uv_key_Unrounded(c) == c

\* uv_key = (round(uv_coord[0], 6), round(uv_coord[1], 6))
uv_key(c) == <<Round6(c[1]), Round6(c[2])>>

\* equality of two keys, as the dictionary compares tuples of floats
KeyEq(a, b) == FloatEq(a[1], b[1]) /\ FloatEq(a[2], b[2])

\* uv_key in uv_dict
InDict(d, key) == \E e \in d : KeyEq(e[1], key)

\* uv_dict[uv_key]
Lookup(d, key) == (CHOOSE e \in d : KeyEq(e[1], key))[2]

\* one corner of the loop over poly.loop_indices, its uv_coord c and its
\* uv_key key: a new key gets the next index and its coordinate is listed
AfterCorner(s, c, key) ==
    IF InDict(s.uv_dict, key)
    THEN [s EXCEPT !.face_uvs = Append(@, Lookup(s.uv_dict, key))]
    ELSE [uv_dict  |-> s.uv_dict \cup {<<key, Len(s.uv_list)>>},
          uv_list  |-> Append(s.uv_list, c),
          face_uvs |-> Append(s.face_uvs, Len(s.uv_list))]

\* uv_coord and uv_key of a corner whose UV is uv
Corner(s, uv) == AfterCorner(s, uv_coord(uv), uv_key(uv_coord(uv)))

\* the loop over poly.loop_indices: the dictionary, the list and face_uvs
\* after the corners whose UVs are uvs
AfterCorners(d, l, f, uvs) ==
    Fold(LAMBDA s, j : Corner(s, uvs[j]),
         [uv_dict |-> d, uv_list |-> l, face_uvs |-> f], 1, Len(uvs))

\* obj.name
CubeName == <<"C", "u", "b", "e">>

\* dmd_mesh = DMDMesh(); the vertices; the faces; then the test of the UV
\* export
ConvertMesh ==
    /\ pc = "object_to_dmd_mesh"
    /\ dmd_mesh' = [DMDMesh EXCEPT !.object_name = CubeName,
                                   !.vertices = ExportedVertices(mesh_vertices, flip_y, flip_z),
                                   !.faces = ExportedFaces(polygons, flip_faces)]
    /\ pc' = IF export_uv /\ uv_layers THEN "uv_loop" ELSE "converted"
    /\ uv_dict' = {} /\ uv_list' = <<>> /\ poly' = 0
    /\ UNCHANGED <<mesh_vertices, polygons, uv_layers, flip_y, flip_z, flip_faces, export_uv>>
    /\ UNCHANGED <<files, parserVars, fileVars, exportVars>>

\* a triangle of the UV loop: its three corners, then its texture face
UVTriangle ==
    /\ pc = "uv_loop" /\ poly < Len(polygons)
    /\ IsTriangle(polygons[poly + 1])
    /\ \E after \in {AfterCorners(uv_dict, uv_list, <<>>, polygons[poly + 1].uvs)} :
           /\ uv_dict' = after.uv_dict
           /\ uv_list' = after.uv_list
           /\ dmd_mesh' = [dmd_mesh EXCEPT !.texture_faces =
                              Append(@, IF flip_faces THEN Reversed(after.face_uvs)
                                        ELSE after.face_uvs)]
    /\ poly' = poly + 1
    /\ UNCHANGED <<pc, mesh_vertices, polygons, uv_layers, flip_y, flip_z, flip_faces,
                   export_uv>>
    /\ UNCHANGED <<files, parserVars, fileVars, exportVars>>

\* a polygon of the UV loop that is no triangle
UVSkipPolygon ==
    /\ pc = "uv_loop" /\ poly < Len(polygons)
    /\ ~IsTriangle(polygons[poly + 1])
    /\ poly' = poly + 1
    /\ UNCHANGED <<pc, mesh_vertices, polygons, uv_layers, flip_y, flip_z, flip_faces,
                   export_uv, uv_dict, uv_list>>
    /\ UNCHANGED <<writerVars, parserVars, fileVars, exportVars>>

\* dmd_mesh.texture_vertices = uv_list
UVAssign ==
    /\ pc = "uv_loop" /\ poly = Len(polygons)
    /\ dmd_mesh' = [dmd_mesh EXCEPT !.texture_vertices = uv_list]
    /\ pc' = "converted"
    /\ UNCHANGED uvVars
    /\ UNCHANGED <<files, parserVars, fileVars, exportVars>>

\* the most polygons of a sample mesh
MaxPolygons == 2

\* the float v * 10^-7
Dec(v) == Fin(v < 0, IF v < 0 THEN 0 - v ELSE v)

\* (0, 0), exported as (0, 1)
UvA == <<Dec(0), Dec(0)>>

\* (0.25, 0.75), exported as (0.25, 0.25)
UvB == <<Dec(2500000), Dec(7500000)>>

\* (0.2500004, 0.7499997): another coordinate with the key of UvB
UvNearB == <<Dec(2500004), Dec(7499997)>>

\* (0.2500006, 0.75): its key is (0.250001, 0.25)
UvC == <<Dec(2500006), Dec(7500000)>>

\* (0, 1), exported as (0, 0)
UvTop == <<Dec(0), Dec(10000000)>>

\* (-0.0000001, 1): its key is (-0.0, 0.0), equal to the key of UvTop
UvBelowZero == <<Dec(-1), Dec(10000000)>>

UvNan == <<Nan, Dec(5000000)>>

UvInf == <<Inf(FALSE), Inf(TRUE)>>

TriangleABC == [vertices |-> <<0, 1, 2>>, uvs |-> <<UvA, UvB, UvC>>]

TriangleNear == [vertices |-> <<0, 2, 3>>, uvs |-> <<UvA, UvNearB, UvC>>]

TriangleNearFirst == [vertices |-> <<1, 2, 3>>, uvs |-> <<UvNearB, UvB, UvBelowZero>>]

TriangleNan == [vertices |-> <<3, 2, 1>>, uvs |-> <<UvTop, UvNan, UvNan>>]

TriangleInf == [vertices |-> <<0, 3, 1>>, uvs |-> <<UvInf, UvBelowZero, UvTop>>]

\* a polygon left untriangulated
Quad == [vertices |-> <<0, 1, 2, 3>>, uvs |-> <<UvA, UvB, UvC, UvTop>>]

PolygonSamples ==
    {TriangleABC, TriangleNear, TriangleNearFirst, TriangleNan, TriangleInf, Quad}

\* the polygons of a mesh without a UV layer
WithoutUVs(ps) == [k \in 1..Len(ps) |-> [ps[k] EXCEPT !.uvs = <<>>]]

VerticesSample ==
    <<<<Whole(0), Whole(0), Whole(0)>>, <<Whole(1), Dec(-25000000), Whole(0)>>,
      <<Whole(1), Inf(FALSE), Nan>>, <<Whole(0), Whole(1), Dec(1234567)>>>>

InitUV ==
    /\ pc = "object_to_dmd_mesh"
    /\ mesh_vertices = VerticesSample
    /\ uv_layers \in BOOLEAN
    /\ polygons \in {IF uv_layers THEN ps ELSE WithoutUVs(ps) :
                        ps \in SeqsUpTo(PolygonSamples, MaxPolygons)}
    /\ flip_y \in BOOLEAN /\ flip_z \in BOOLEAN /\ flip_faces \in BOOLEAN
    /\ export_uv \in BOOLEAN
    /\ poly = 0 /\ uv_dict = {} /\ uv_list = <<>>
    /\ IdleParser /\ IdleWriter /\ IdleFile /\ IdleExport

NextUV ==
    \/ ConvertMesh
    \/ UVTriangle
    \/ UVSkipPolygon
    \/ UVAssign

SpecUV == InitUV /\ [][NextUV]_vars

(***************************************************************************)
(* Claims about the UV deduplication, checked under SpecUV.                *)
(***************************************************************************)
\* the exported triangles
Triangles == SelectSeq(polygons, IsTriangle)

\* the exported UV coordinates of their corners, in the order of the loops
Corners ==
    [j \in 1..(3 * Len(Triangles)) |->
        LET uv == Triangles[((j - 1) \div 3) + 1].uvs[((j - 1) % 3) + 1]
        IN  <<uv[1], OneMinus(uv[2])>>]

\* two coordinates are equal when quantized to 6 decimals
SameQuantized(a, b) ==
    FloatEq(Round6(a[1]), Round6(b[1])) /\ FloatEq(Round6(a[2]), Round6(b[2]))

\* the conversion has returned and has exported UVs
UVExported == pc = "converted" /\ export_uv /\ uv_layers

\* C8: texture_vertices has no two entries with the same key quantized to
\* 6 decimals; its entries are the first-seen corners in first-seen order;
\* there is one texture face per exported triangle; every texture-face
\* index is an index of texture_vertices; and corners with the same
\* quantized UV reference the same entry, whatever their faces.
C8_UVDeduplicated ==
    UVExported =>
        LET tv      == dmd_mesh.texture_vertices
            tf      == dmd_mesh.texture_faces
            n       == Len(Triangles)
            cs      == Corners
            FirstSeen(j) == ~\E h \in 1..(j - 1) : SameQuantized(cs[h], cs[j])
            FirstOf(j)   == IF FirstSeen(j) THEN j
                            ELSE MinOf({h \in 1..(j - 1) : SameQuantized(cs[h], cs[j])})
            Rank(j)      == Cardinality({h \in 1..j : FirstSeen(h)})
            Slot(c)      == IF flip_faces THEN 4 - c ELSE c
            IndexAt(j)   == tf[((j - 1) \div 3) + 1][Slot(((j - 1) % 3) + 1)]
        IN  /\ \A a, b \in DOMAIN tv : a # b => ~SameQuantized(tv[a], tv[b])
            /\ Len(tv) = Cardinality({j \in DOMAIN cs : FirstSeen(j)})
            /\ \A j \in DOMAIN cs : FirstSeen(j) => tv[Rank(j)] = cs[j]
            /\ Len(tf) = n /\ Len(dmd_mesh.faces) = n
            /\ \A t \in DOMAIN tf :
                   DOMAIN tf[t] = 1..3 /\ \A c \in 1..3 : tf[t][c] \in 0..(Len(tv) - 1)
            /\ \A j \in DOMAIN cs : IndexAt(j) = Rank(FirstOf(j)) - 1
            /\ \A j, h \in DOMAIN cs :
                   SameQuantized(cs[j], cs[h]) => IndexAt(j) = IndexAt(h)

\* C8's case: two flipped triangles; the second has two corners whose
\* coordinates differ in the seventh decimal and share the entry that a
\* corner of the first triangle made.
C8_Witness ==
    /\ UVExported /\ flip_faces
    /\ polygons = <<TriangleABC, TriangleNearFirst>>
    /\ Len(dmd_mesh.texture_vertices) = 4
    /\ dmd_mesh.texture_faces = <<<<2, 1, 0>>, <<3, 1, 1>>>>

(***************************************************************************)
(* Totality of the decoder, checked under SpecFile, whose files have data  *)
(* before any header, "New object" as the last line, bytes that are no     *)
(* text, and indices longer than int() accepts.                            *)
(***************************************************************************)
\* an iteration of the line loop moves the index forward
IndexAdvances == pc = "loop" /\ pc' = "loop" => i' > i

\* the line loop is left only by its test or by an exception
LoopLeaves == pc = "loop" /\ pc' # "loop" => pc' \in {"parsed", "raised"}

\* C11: _parse_content is total: on every content the line index strictly
\* increases on every iteration, so the loop terminates, and the decoder
\* returns a mesh without raising.
C11_ParseContentTotal ==
    /\ [][IndexAdvances /\ LoopLeaves]_vars
    /\ [](i <= Len(lines) + 1)
    /\ [](pc # "raised")

(***************************************************************************)
(* The object name, checked under SpecParse, where any line of RawLines    *)
(* (a header, a closing line, a data line, the marker itself) can follow   *)
(* a 'New object' line and the marker can be the last line.                *)
(***************************************************************************)
\* the positions of the lines that begin with 'New object'
MarkerLines == {k \in 1..Len(lines) : StartsWith(lines[k], NewObjectMarker)}

\* the loop is at a 'New object' line that has a line after it
AtNamedObject == AtNewObject /\ i + 1 < Len(lines)

\* the line after the marker gives the name and nothing else: the data lists
\* stay, the section state is not set by it, and the loop goes on behind it
NameLineOnlyNames ==
    AtNamedObject =>
        /\ mesh'.object_name = Strip(Remove(lines[i + 2], Parens))
        /\ MeshData(mesh') = MeshData(mesh)
        /\ current_section' \in {current_section, ""}
        /\ i' = i + 2 /\ pc' = "loop"

\* a marker with no line after it leaves the name and the data as they are
LastMarkerKeepsName ==
    AtNewObject /\ ~AtNamedObject => mesh' = mesh /\ i' >= Len(lines)

\* no other line of the loop touches the name
OnlyMarkerNames ==
    pc = "loop" /\ ~AtNewObject => mesh'.object_name = mesh.object_name

\* the decoder has returned
Parsed == pc = "parsed"

\* C12 as stated: the line after a 'New object' line is consumed only as the
\* name, with "()" removed and trimmed, and whenever the input has no
\* 'New object' line or 'New object' is its last non-empty line the name is
\* the placeholder "TriMesh".
C12_NameLineAsStated ==
    /\ [][NameLineOnlyNames /\ OnlyMarkerNames]_vars
    /\ [](Parsed /\ (MarkerLines = {} \/ Len(lines) \in MarkerLines)
            => mesh.object_name = DMDMesh.object_name)

\* C12, amended: the line after a 'New object' line is consumed only as the
\* name, with "()" removed and trimmed; a 'New object' line that is the last
\* non-empty line leaves the name as it was; so the name is the placeholder
\* "TriMesh" when the input has no 'New object' line or its only one is the
\* last non-empty line.
C12_NameLineOnlyNames ==
    /\ [][NameLineOnlyNames /\ LastMarkerKeepsName /\ OnlyMarkerNames]_vars
    /\ [](Parsed /\ MarkerLines \subseteq {Len(lines)}
            => mesh.object_name = DMDMesh.object_name)

\* C12's case: the name line reads as a section header, a data line follows
\* it and a second marker ends the input; the header text became the name,
\* the data line was recorded nowhere and the last marker kept the name.
C12_Witness ==
    /\ Parsed
    /\ lines = <<NewObjectMarker, MeshVerticesHeader, Strip(DataLine), NewObjectMarker>>
    /\ mesh.object_name = MeshVerticesHeader
    /\ MeshData(mesh) = MeshData(DMDMesh)
    /\ current_section = ""

(***************************************************************************)
(* The offsets of export_combined_objects against the lengths of the       *)
(* combined lists, checked under SpecExport.                               *)
(***************************************************************************)
\* export_combined_objects is between two iterations of its loop or behind it
BetweenMeshes ==
    /\ export_mode = "COMBINED"
    /\ pc \in {"export_loop", "returned"}
    /\ mesh_objects # <<>>

\* every index of every triple is a position of a list of n elements
IndicesWithin(triples, n) ==
    \A k \in DOMAIN triples : \A c \in 1..3 : triples[k][c] \in 0..(n - 1)

\* the face indices of the mesh are within its vertex list, its UV-face
\* indices within its UV-vertex list
WellIndexed(m) ==
    /\ IndicesWithin(m.faces, Len(m.vertices))
    /\ IndicesWithin(m.texture_faces, Len(m.texture_vertices))

\* C13: after each input mesh has been merged or skipped, vertex_offset is
\* the length of the combined vertex list and uv_offset the length of the
\* combined UV-vertex list; hence, when every merged mesh is well indexed,
\* so is the combined mesh.
C13_OffsetsAreLengths ==
    BetweenMeshes =>
        /\ vertex_offset = Len(combined_mesh.vertices)
        /\ uv_offset = Len(combined_mesh.texture_vertices)
        /\ (\A k \in DOMAIN MergedMeshes(obj) : WellIndexed(MergedMeshes(obj)[k]))
               => WellIndexed(combined_mesh)

\* C13's case: a quad without UVs, a failed conversion and a triangle with
\* 2 UV vertices were processed: 7 vertices and 2 UV vertices in all, the
\* triangle's face at the indices 4..6.
C13_Witness ==
    /\ BetweenMeshes
    /\ mesh_objects = <<QuadObject, BrokenObject, TriangleObject>>
    /\ obj = 3 /\ pc = "returned"
    /\ vertex_offset = 7 /\ uv_offset = 2
    /\ Len(combined_mesh.vertices) = 7
    /\ Len(combined_mesh.texture_vertices) = 2
    /\ combined_mesh.faces[3] = <<4, 5, 6>>

====
